---- MODULE Spec2Model ----
(***************************************************************************)
(* Model of render.py: the render invocation wrapper (run_and_rename,      *)
(* just_run), the identifier extraction and the file reconciliation loop;  *)
(* of generate_pptx.py, which builds a slide deck from the clips; and of   *)
(* setup_manim_windows.py, the steps of ManimWindowsSetup.run.             *)
(* Text is a sequence of one-character strings; a path is a record of the  *)
(* directory components and the base name; the file system maps every      *)
(* existing path to its content.                                           *)
(***************************************************************************)
EXTENDS Integers, Sequences, FiniteSets, TLC

VARIABLES
    entry,          \* which entry point of render.py was called
    args,           \* the caller's arguments (filename, scene_name, quality)
    pc,             \* position inside the called function
    quality,        \* the quality label in use (argument, or local of just_run)
    filename,       \* local `filename` (rebound by the for loop, line 27)
    cmd,            \* the command line built on line 17 / 40
    launched,       \* the renderer process was started by this call
    running,        \* the renderer process has been started and has not exited
    rendererOut,    \* what the renderer wrote to its standard output
    rendererErr,    \* what the renderer wrote to its standard error
    returncode,     \* exit status of the renderer
    result_stdout,  \* result.stdout: the text the wrapper captured
    output,         \* line 19
    matches,        \* line 22
    path_prefix,    \* line 24
    new_filenames,  \* line 25
    idx,            \* loop index of enumerate(matches, start=1)
    fs,             \* file system: existing path -> content
    fsops,          \* file-system calls made by the current call, in order
    err,            \* the exception that left the function, or "none"
    ret,            \* the returned value
    wrote,          \* the files the renderer wrote during the current call
    fs0,            \* the file system when the renderer had exited
    run,            \* number of the current call (1 = first call)
    prev,           \* what the previous call left behind when it returned
    clipFrames,     \* number of video frames in each clip the renderer writes
    prs,            \* generate_pptx: the slides of the presentation in memory
    deck,           \* the file presentation.pptx
    containers,     \* the video containers opened for poster frames
    procs,          \* two concurrent calls: the locals of each call's loop
    cops,           \* two concurrent calls: the file-system calls made, in order
    step,           \* setup: the step of run() that comes next
    exitcode,       \* setup: the status sys.exit was called with, or -1
    version,        \* setup: sys.version_info (major, minor)
    system,         \* setup: platform.system()
    environ,        \* setup: os.environ of the setup process
    systemPath,     \* setup: the PATH the operating system keeps for new logins
    children,       \* setup: the child processes started, with their environment
    disk,           \* setup: what exists under base_dir
    warned,         \* setup: the steps that logged a warning
    ran,            \* setup: the steps that ran, in order, and how each ended
    ffbin,          \* setup: the files of the ffmpeg bin directory
    scripts         \* setup: the venv's scripts directory: file -> origin

vars == <<entry, args, pc, quality, filename, cmd, launched, running,
          rendererOut, rendererErr, returncode, result_stdout, output, matches,
          path_prefix, new_filenames, idx, fs, fsops, err, ret, wrote, fs0,
          run, prev, clipFrames, prs, deck, containers, procs, cops, step,
          exitcode,
          version, system, environ, systemPath, children, disk, warned, ran,
          ffbin, scripts>>

\* the state of generate_pptx.py outside its run_and_rename call
pptxVars == <<clipFrames, prs, deck, containers>>

\* the state of setup_manim_windows.py
setupVars == <<step, exitcode, version, system, environ, systemPath,
               children, disk, warned, ran, ffbin, scripts>>

\* the state that only the concurrent calls and the setup script use
otherVars == <<procs, cops, setupVars>>

----------------------------------------------------------------------------
(* Bounds of the model *)

MaxLines == 2       \* lines the renderer writes to standard output
MaxRuns == 2        \* calls in a row with the same arguments
MaxTextLen == 5     \* length of the free texts handed to the extraction
MaxFrames == 2      \* video frames in a clip

----------------------------------------------------------------------------
(* Characters and text *)

Digit == {"0", "1", "2", "3", "4", "5", "6", "7", "8", "9"}

\* str.strip() without arguments removes leading and trailing whitespace
Whitespace == {" ", "\t", "\n", "\r", "\f"}

\* str.splitlines() line boundaries (the two-character \r\n is handled in
\* SplitFrom)
LineBreak == {"\n", "\r", "\f"}

RECURSIVE SplitFrom(_, _, _)
\* str.splitlines(): cut at every line boundary, boundaries not kept; a
\* trailing boundary does not open an empty last line
SplitFrom(t, i, cur) ==
    IF i > Len(t) THEN (IF cur = <<>> THEN <<>> ELSE <<cur>>)
    ELSE IF t[i] = "\r" /\ i < Len(t) /\ t[i + 1] = "\n"
         THEN <<cur>> \o SplitFrom(t, i + 2, <<>>)
    ELSE IF t[i] \in LineBreak
         THEN <<cur>> \o SplitFrom(t, i + 1, <<>>)
    ELSE SplitFrom(t, i + 1, Append(cur, t[i]))

splitlines(t) == SplitFrom(t, 1, <<>>)

\* str.strip(): drop leading and trailing whitespace
StripKeepsWhitespace(s) == s

strip(s) ==
    LET keep == {i \in 1..Len(s) : s[i] \notin Whitespace}
    IN  IF keep = {} THEN <<>>
        ELSE SubSeq(s, CHOOSE i \in keep : \A j \in keep : i <= j,
                       CHOOSE i \in keep : \A j \in keep : j <= i)

RECURSIVE joinSpaced(_)
joinSpaced(lines) ==
    IF lines = <<>> THEN <<>>
    ELSE IF Tail(lines) = <<>> THEN Head(lines)
    ELSE Head(lines) \o <<" ">> \o joinSpaced(Tail(lines))

RECURSIVE join(_)
\* ''.join(lines)
join(lines) == IF lines = <<>> THEN <<>> ELSE Head(lines) \o join(Tail(lines))

\* line 19: ''.join(map(lambda x: x.strip(), result.stdout.decode().splitlines()))
JoinedOutput(text) ==
    LET ls == splitlines(text)
    IN  join([i \in 1..Len(ls) |-> strip(ls[i])])

----------------------------------------------------------------------------
(* Identifier extraction: re.findall(r'\d+_\d+_\d+', output) *)

RECURSIVE DigitRunEnd(_, _)
\* \d+ is greedy: index of the last digit of the digit run starting at p,
\* p - 1 when there is no digit at p
DigitRunEnd(t, p) ==
    IF p <= Len(t) /\ t[p] \in Digit THEN DigitRunEnd(t, p + 1) ELSE p - 1

\* The pattern tried at position p: index of the last character of the match,
\* 0 when the pattern does not match at p.  A shorter digit run is always
\* followed by a digit, never by "_", so backtracking finds nothing else.
IsSepAnyChar(t, i) == i <= Len(t) /\ t[i] \notin Digit

IsSep(t, i) == i <= Len(t) /\ t[i] = "_"

MatchEndTwoGroups(t, p) ==
    LET e1 == DigitRunEnd(t, p)
        e2 == DigitRunEnd(t, e1 + 2)
    IN  IF e1 < p \/ ~IsSep(t, e1 + 1) \/ e2 < e1 + 2 THEN 0 ELSE e2

MatchEnd(t, p) ==
    LET e1 == DigitRunEnd(t, p)
        e2 == DigitRunEnd(t, e1 + 2)
        e3 == DigitRunEnd(t, e2 + 2)
    IN  IF e1 < p \/ ~IsSep(t, e1 + 1) THEN 0
        ELSE IF e2 < e1 + 2 \/ ~IsSep(t, e2 + 1) THEN 0
        ELSE IF e3 < e2 + 2 THEN 0
        ELSE e3

RECURSIVE FindSpans(_, _)
\* the scan of findall: leftmost match first, then on from the end of it
FindSpans(t, p) ==
    IF p > Len(t) THEN <<>>
    ELSE LET e == MatchEnd(t, p)
         IN  IF e = 0 THEN FindSpans(t, p + 1)
             ELSE <<<<p, e>>>> \o FindSpans(t, e + 1)

RECURSIVE Dedup(_)
Dedup(s) ==
    IF s = <<>> THEN <<>>
    ELSE LET r == Dedup(SubSeq(s, 1, Len(s) - 1))
         IN  IF \E i \in 1..Len(r) : r[i] = s[Len(s)] THEN r
             ELSE Append(r, s[Len(s)])

findallDedup(t) ==
    LET sp == FindSpans(t, 1)
    IN  Dedup([i \in 1..Len(sp) |-> SubSeq(t, sp[i][1], sp[i][2])])

\* re.findall with a pattern without groups: the matched substrings, in order
findall(t) ==
    LET sp == FindSpans(t, 1)
    IN  [i \in 1..Len(sp) |-> SubSeq(t, sp[i][1], sp[i][2])]

----------------------------------------------------------------------------
(* The quality table and the command line *)

Labels == {"480p15", "720p30", "1080p60", "1440p60", "2160p60"}

\* lines 6-12
qualitiesShared ==
    [q \in Labels |->
        CASE q = "480p15" -> "-ql"
          [] q = "720p30" -> "-qm"
          [] q = "1080p60" -> "-qh"
          [] q = "1440p60" -> "-qh"
          [] q = "2160p60" -> "-qk"]

qualities ==
    [q \in Labels |->
        CASE q = "480p15" -> "-ql"
          [] q = "720p30" -> "-qm"
          [] q = "1080p60" -> "-qh"
          [] q = "1440p60" -> "-qp"
          [] q = "2160p60" -> "-qk"]

\* qualities[quality]: a dict subscript raises KeyError on a missing key
LookupWithDefault(q) ==
    IF q \in DOMAIN qualities THEN [ok |-> TRUE, flag |-> qualities[q]]
    ELSE [ok |-> TRUE, flag |-> "-ql"]

Lookup(q) ==
    IF q \in DOMAIN qualities THEN [ok |-> TRUE, flag |-> qualities[q]]
    ELSE [ok |-> FALSE, flag |-> "KeyError"]

\* lines 17 and 40: [home_dir/.venv/Scripts/manim, flag, filename, scene_name]
CmdSceneFirst(flag, fname, scene) == <<"manim", flag, scene, fname>>

Cmd(flag, fname, scene) == <<"manim", flag, fname, scene>>

----------------------------------------------------------------------------
(* Paths *)

Mp4 == <<".", "m", "p", "4">>

\* os.path.splitext(filename)[0]: the name without its last extension; a dot
\* that only follows dots (a leading dot) starts no extension
splitext0(f) ==
    LET dots == {i \in 1..Len(f) :
                    f[i] = "." /\ \E j \in 1..(i - 1) : f[j] # "."}
    IN  IF dots = {} THEN f
        ELSE SubSeq(f, 1, (CHOOSE i \in dots : \A j \in dots : j <= i) - 1)

DigitChar(d) ==
    CASE d = 0 -> "0" [] d = 1 -> "1" [] d = 2 -> "2" [] d = 3 -> "3"
      [] d = 4 -> "4" [] d = 5 -> "5" [] d = 6 -> "6" [] d = 7 -> "7"
      [] d = 8 -> "8" [] d = 9 -> "9"

RECURSIVE Str(_)
\* f'{idx}': the decimal digits of a non-negative integer
Str(n) == IF n < 10 THEN <<DigitChar(n)>>
          ELSE Str(n \div 10) \o <<DigitChar(n % 10)>>

\* line 24: media/videos/{stem}/{quality}/partial_movie_files/{scene_name}/
PathPrefixKeepsExt(fname, q, scene) ==
    <<"media", "videos", fname, q, "partial_movie_files", scene>>

PathPrefix(fname, q, scene) ==
    <<"media", "videos", splitext0(fname), q, "partial_movie_files", scene>>

\* line 28: path_prefix + f'{scene_name}_{idx}.mp4'
NewPathSameForAll(prefix, scene, i) ==
    [dir |-> prefix, name |-> scene \o <<"_">> \o Str(1) \o Mp4]

NewPath(prefix, scene, i) ==
    [dir |-> prefix, name |-> scene \o <<"_">> \o Str(i) \o Mp4]

\* line 29: path_prefix + filename + '.mp4'
OldPathIgnoresIdentifier(prefix, ident) == [dir |-> prefix, name |-> <<"x">> \o Mp4]

OldPath(prefix, ident) == [dir |-> prefix, name |-> ident \o Mp4]

----------------------------------------------------------------------------
(* The file system *)

\* os.path.exists(path)
AlwaysAbsent(f, p) == FALSE

exists(f, p) == p \in DOMAIN f

\* the file system after os.remove(path) of an existing file
RemovedNothing(f, p) == f

Removed(f, p) == [x \in DOMAIN f \ {p} |-> f[x]]

\* the file system after os.rename(src, dst) of an existing src: dst names
\* the content src named, src is gone
RenamedKeepsSource(f, src, dst) ==
    [x \in DOMAIN f \cup {dst} |-> IF x = dst THEN f[src] ELSE f[x]]

Renamed(f, src, dst) ==
    [x \in (DOMAIN f \ {src}) \cup {dst} |-> IF x = dst THEN f[src] ELSE f[x]]

\* the renderer writes the partial movie files named in the set ws: each
\* holds the content rendered under its own name
Written(f, ws) ==
    [x \in DOMAIN f \cup ws |-> IF x \in ws THEN x.name ELSE f[x]]

----------------------------------------------------------------------------
(* Inputs and environment *)

\* a quality argument outside the table
OtherLabels == {"720p60"}

\* scene names are names of Python classes of the source file (line 44:
\* 'Task641036'); source files are Python files (line 45)
Scenes == {<<"S">>}
SourceFiles == {<<"m", ".", "p", "y">>}

\* the identifiers of the partial movie files the renderer can write
IdA == <<"0", "_", "0", "_", "0">>
IdB == <<"0", "_", "0", "_", "1">>
IdPool == {IdA, IdB}

\* lines the renderer prints: an identifier after other text, an identifier
\* padded with blanks, and an identifier wrapped over two lines (the first
\* half alone is a line without identifier)
LinePool ==
    { <<"a">> \o IdA,
      <<" ">> \o IdB \o <<" ">>,
      <<"a", "0", "_", "0">>,
      <<"_", "1", " ">> }

\* the renderer runs on Windows (.venv/Scripts, line 17): lines end in \r\n
LineEnds == {<<"\r", "\n">>}

RECURSIVE SeqsUpTo(_, _)
\* all sequences over S of length at most n
SeqsUpTo(S, n) ==
    IF n = 0 THEN {<<>>}
    ELSE LET shorter == SeqsUpTo(S, n - 1)
         IN  shorter \cup {Append(q, x) : q \in shorter, x \in S}

RECURSIVE Terminated(_, _)
\* the text of the lines ls, each followed by the line end nl
Terminated(ls, nl) ==
    IF ls = <<>> THEN <<>> ELSE Head(ls) \o nl \o Terminated(Tail(ls), nl)

\* what the renderer may write to its standard error
ErrTexts == {<<>>, <<"e">> \o IdB \o <<"\n">>}

\* the renderer's output directory for a request
OutDir(a, q) == PathPrefix(a.filename, q, a.scene_name)

\* a file the wrapper has no name for
OtherFile(a, q) == [dir |-> OutDir(a, q), name |-> <<"x">> \o Mp4]

\* target files left behind by earlier calls
StaleTargets(a, q) == {NewPath(OutDir(a, q), a.scene_name, i) : i \in 1..2}

\* what a clip file can hold: a video stream that cannot be decoded, a
\* stream without a frame, or a stream of frames
Undecodable == -1
FrameCounts == {Undecodable, 0, MaxFrames}

\* the clips the renderer can write, by the file name it gives them
Clips == {i \o Mp4 : i \in IdPool}

\* the frames of the clip c
FramesOf(c, n) == [k \in 1..n |-> [clip |-> c, no |-> k]]

\* presentation.pptx is absent when the script starts
NoDeck == [exists |-> FALSE, slides |-> <<>>]

\* a single call is made: there are no concurrent calls
NoProcs == <<>>
SingleCall == procs = NoProcs /\ cops = <<>>

\* the setup script is not running
NoSetup ==
    /\ step = "none"
    /\ exitcode = -1
    /\ version = <<3, 13>>
    /\ system = "Windows"
    /\ environ = <<>>
    /\ systemPath = <<>>
    /\ children = <<>>
    /\ disk = {}
    /\ warned = {}
    /\ ran = <<>>
    /\ ffbin = {}
    /\ scripts = <<>>

NoSnapshot ==
    [fs |-> <<>>, ret |-> <<>>, wrote |-> {}, rendererOut |-> <<>>,
     rendererErr |-> <<>>, returncode |-> 0]

----------------------------------------------------------------------------
(* State machine *)

\* the locals of a call before its first statement
Entered ==
    /\ pc = "start"
    /\ quality = args.quality
    /\ filename = args.filename
    /\ cmd = <<>>
    /\ launched = FALSE
    /\ running = FALSE
    /\ rendererOut = <<>>
    /\ rendererErr = <<>>
    /\ returncode = 0
    /\ result_stdout = <<>>
    /\ output = <<>>
    /\ matches = <<>>
    /\ path_prefix = <<>>
    /\ new_filenames = <<>>
    /\ idx = 0
    /\ fsops = <<>>
    /\ err = "none"
    /\ ret = <<>>
    /\ wrote = {}
    /\ prs = <<>>

\* line 39: just_run has no quality parameter and uses '720p30'
QualityInUse == IF entry = "just_run" THEN "720p30" ELSE args.quality

\* the quality argument of the call: just_run has none, generate_pptx calls
\* run_and_rename with '2160p60' (generate_pptx.py lines 31-33)
QualityArgs(e) ==
    CASE e = "just_run" -> {""}
      [] e = "generate_pptx" -> {"2160p60"}
      [] OTHER -> Labels \cup OtherLabels

Init ==
    /\ entry \in {"run_and_rename", "just_run", "generate_pptx"}
    /\ args \in [filename : SourceFiles, scene_name : Scenes,
                 quality : QualityArgs(entry)]
    /\ Entered
    /\ \E stale \in SUBSET StaleTargets(args, QualityInUse) :
          LET present == stale \cup {OtherFile(args, QualityInUse)}
          IN  fs = [x \in present |-> x.name]
    /\ fs0 = fs
    /\ run = 1
    /\ prev = NoSnapshot
    /\ clipFrames = [c \in Clips |-> MaxFrames]
    /\ deck = NoDeck
    /\ containers = <<>>
    /\ SingleCall
    /\ NoSetup

\* an exception leaves the function
RaiseCaught(e) == pc' = "done" /\ err' = e

Raise(e) == pc' = "raised" /\ err' = e

\* lines 17 and 39-40: look the flag up and build the command line
BuildCmd ==
    /\ pc = "start"
    /\ quality' = QualityInUse
    /\ LET r == Lookup(QualityInUse)
       IN  IF r.ok
           THEN /\ cmd' = Cmd(r.flag, filename, args.scene_name)
                /\ pc' = "run"
                /\ err' = err
           ELSE /\ Raise("KeyError")
                /\ cmd' = cmd
    /\ UNCHANGED <<entry, args, filename, launched, running, rendererOut,
                   rendererErr, returncode, result_stdout, output, matches, path_prefix,
                   new_filenames, idx, fs, fsops, ret, wrote, fs0, run, prev>>
    /\ UNCHANGED <<pptxVars, otherVars>>

\* subprocess.run(cmd, stdout=subprocess.PIPE): only the standard output is
\* piped to the wrapper, the standard error goes where the wrapper's goes
CapturedBoth(out, errtext) == out \o errtext

Captured(out, errtext) == out

\* subprocess.run without check=True: the exit status is stored in the
\* result and nothing is raised for it
AfterExitChecked(rc) == IF rc # 0 THEN "raised" ELSE "parse"

AfterExit(rc) == "parse"

\* subprocess.run is Popen followed by communicate(): the call returns only
\* when the child has exited, the wrapper's next statement comes after that
AfterStartNoWait == IF entry = "just_run" THEN "done" ELSE "parse"

AfterStart == "wait"

\* lines 19-35 follow the subprocess call in run_and_rename only: just_run
\* ends with its subprocess.run on line 41
ReconcilesAlways(e) == TRUE

Reconciles(e) == e # "just_run"

\* the renderer runs to its end: it prints, writes partial movie files into
\* its output directory and exits.  A repeated call with the same arguments
\* renders the same scene and prints the same text.
RendererRuns(out, errtext, rc, ids) ==
    LET ws == {OldPath(OutDir(args, quality), i) : i \in ids}
    IN  /\ running' = FALSE
        /\ \E n \in [ids -> IF entry = "generate_pptx" THEN FrameCounts
                             ELSE {MaxFrames}] :
              clipFrames' = [c \in Clips |->
                                IF \E i \in ids : c = i \o Mp4
                                THEN n[CHOOSE i \in ids : c = i \o Mp4]
                                ELSE clipFrames[c]]
        /\ rendererOut' = out
        /\ rendererErr' = errtext
        /\ returncode' = rc
        /\ wrote' = ws
        /\ fs' = Written(fs, ws)
        /\ fs0' = fs'
        /\ IF ~Reconciles(entry)
           THEN /\ result_stdout' = result_stdout
                /\ pc' = "done"
                /\ err' = err
           ELSE /\ result_stdout' = Captured(out, errtext)
                /\ pc' = AfterExit(rc)
                /\ err' = IF pc' = "raised" THEN "CalledProcessError" ELSE err

\* lines 18 and 41: subprocess.run starts the renderer; a missing
\* executable makes the start fail
RunRenderer ==
    /\ pc = "run"
    /\ \/ /\ Raise("FileNotFoundError")
          /\ UNCHANGED <<launched, running>>
       \/ /\ launched' = TRUE
          /\ running' = TRUE
          /\ pc' = AfterStart
          /\ err' = err
    /\ UNCHANGED <<entry, args, quality, filename, cmd, rendererOut,
                   rendererErr, returncode, result_stdout, output, matches,
                   path_prefix, new_filenames, idx, fs, fsops, ret, wrote,
                   fs0, run, prev>>
    /\ UNCHANGED <<pptxVars, otherVars>>

\* lines 18 and 41: subprocess.run waits until the renderer has exited and
\* then returns its exit status and, for run_and_rename, the captured text
WaitRenderer ==
    /\ pc = "wait"
    /\ running
    /\ \/ /\ run = 1
          /\ \E ls \in SeqsUpTo(LinePool, MaxLines), nl \in LineEnds,
                errtext \in ErrTexts, rc \in {0, 1}, ids \in SUBSET IdPool :
                RendererRuns(Terminated(ls, nl), errtext, rc, ids)
       \/ /\ run > 1
          /\ \E ids \in SUBSET IdPool :
                RendererRuns(prev.rendererOut, prev.rendererErr,
                             prev.returncode, ids)
    /\ UNCHANGED <<entry, args, quality, filename, cmd, launched, output,
                   matches, path_prefix, new_filenames, idx, fsops, ret, run,
                   prev, prs, deck, containers, otherVars>>

\* lines 19-25: join the captured lines, extract the identifiers, build the
\* path prefix
Parse ==
    /\ pc = "parse"
    /\ output' = JoinedOutput(result_stdout)
    /\ matches' = findall(output')
    /\ path_prefix' = PathPrefix(filename, quality, args.scene_name)
    /\ new_filenames' = <<>>
    /\ idx' = 1
    /\ pc' = "loop"
    /\ UNCHANGED <<entry, args, quality, filename, cmd, launched, running,
                   rendererOut, rendererErr, returncode, result_stdout, fs, fsops, err,
                   ret, wrote, fs0, run, prev>>
    /\ UNCHANGED <<pptxVars, otherVars>>

\* the paths of the current iteration (lines 28-29)
new_path == NewPath(path_prefix, args.scene_name, idx)
old_path == OldPath(path_prefix, filename)

\* lines 27-30 and 35: next identifier and the exists test, or the return
LoopHead ==
    /\ pc = "loop"
    /\ IF idx > Len(matches)
       THEN /\ pc' = "done"
            /\ ret' = new_filenames
            /\ filename' = filename
       ELSE /\ filename' = matches[idx]
            /\ pc' = IF exists(fs, new_path) THEN "remove" ELSE "rename"
            /\ ret' = ret
    /\ UNCHANGED <<entry, args, quality, cmd, launched, running, rendererOut,
                   rendererErr, returncode, result_stdout, output, matches,
                   path_prefix, new_filenames, idx, fs, fsops, err, wrote,
                   fs0, run, prev>>
    /\ UNCHANGED <<pptxVars, otherVars>>

\* lines 27-33 have no try/except and no undo: when os.remove or os.rename
\* raises, the file system stays as the calls made so far have left it
RolledBack(f, before) == before

AfterFailure(f, before) == f

\* line 31: os.remove(new_path)
Remove ==
    /\ pc = "remove"
    /\ IF new_path \in DOMAIN fs
       THEN /\ fs' = Removed(fs, new_path)
            /\ fsops' = Append(fsops, [op |-> "remove", path |-> new_path,
                                       src |-> new_path, existed |-> TRUE])
            /\ pc' = "rename"
            /\ err' = err
       ELSE /\ Raise("FileNotFoundError")
            /\ fs' = AfterFailure(fs, fs0)
            /\ fsops' = fsops
    /\ UNCHANGED <<entry, args, quality, filename, cmd, launched, running,
                   rendererOut, rendererErr, returncode, result_stdout, output, matches,
                   path_prefix, new_filenames, idx, ret, wrote, fs0, run,
                   prev>>
    /\ UNCHANGED <<pptxVars, otherVars>>

\* the rename of line 32 takes place, then line 33
Moves ==
    /\ fs' = Renamed(fs, old_path, new_path)
    /\ fsops' = Append(fsops, [op |-> "rename", path |-> new_path,
                               src |-> old_path,
                               existed |-> new_path \in DOMAIN fs])
    /\ new_filenames' = Append(new_filenames, new_path)
    /\ idx' = idx + 1
    /\ pc' = "loop"
    /\ err' = err

\* lines 32-33: os.rename(old_path, new_path).  A missing source raises; an
\* existing destination is replaced on POSIX and raises on Windows.
Rename ==
    /\ pc = "rename"
    /\ IF old_path \notin DOMAIN fs
       THEN /\ Raise("FileNotFoundError")
            /\ fs' = AfterFailure(fs, fs0)
            /\ UNCHANGED <<fsops, new_filenames, idx>>
       ELSE IF new_path \in DOMAIN fs
       THEN \/ Moves
            \/ /\ Raise("FileExistsError")
               /\ fs' = AfterFailure(fs, fs0)
               /\ UNCHANGED <<fsops, new_filenames, idx>>
       ELSE Moves
    /\ UNCHANGED <<entry, args, quality, filename, cmd, launched, running,
                   rendererOut, rendererErr, returncode, result_stdout, output, matches,
                   path_prefix, ret, wrote, fs0, run, prev>>
    /\ UNCHANGED <<pptxVars, otherVars>>

\* the caller calls the same entry point again with the same arguments
CallAgain ==
    /\ pc = "done"
    /\ entry # "generate_pptx"
    /\ run < MaxRuns
    /\ run' = run + 1
    /\ prev' = [fs |-> fs, ret |-> ret, wrote |-> wrote,
                rendererOut |-> rendererOut, rendererErr |-> rendererErr,
                returncode |-> returncode]
    /\ pc' = "start"
    /\ quality' = args.quality
    /\ filename' = args.filename
    /\ cmd' = <<>>
    /\ launched' = FALSE
    /\ running' = FALSE
    /\ rendererOut' = <<>>
    /\ rendererErr' = <<>>
    /\ returncode' = 0
    /\ result_stdout' = <<>>
    /\ output' = <<>>
    /\ matches' = <<>>
    /\ path_prefix' = <<>>
    /\ new_filenames' = <<>>
    /\ idx' = 0
    /\ fsops' = <<>>
    /\ err' = "none"
    /\ ret' = <<>>
    /\ wrote' = {}
    /\ fs0' = fs
    /\ UNCHANGED <<entry, args, fs>>
    /\ UNCHANGED <<pptxVars, otherVars>>

\* generate_pptx.py lines 11-27: the first decoded frame as JPEG bytes with
\* the read position at the start, or None when the stream has no frame
ExtractLastFrame(frames) ==
    IF frames = <<>> THEN [none |-> TRUE]
    ELSE [none |-> FALSE, format |-> "JPEG", image |-> frames[Len(frames)],
          pos |-> 0]

extract_first_frame_to_bytes(frames) ==
    IF frames = <<>> THEN [none |-> TRUE]
    ELSE [none |-> FALSE, format |-> "JPEG", image |-> Head(frames), pos |-> 0]

\* generate_pptx.py lines 16-24: the number of frames the decoding loop
\* takes from the container: the loop body returns in its first pass
FramesDecodedAll(frames) == Len(frames)

FramesDecoded(frames) == IF frames = <<>> THEN 0 ELSE 1

\* generate_pptx.py lines 13, 23, 26: the container of a call that
\* returned: it was closed on line 23 before the return of line 24, or on
\* line 26 before the return of line 27
Container(clip, frames) ==
    [clip |-> clip, decoded |-> FramesDecoded(frames), closed |-> TRUE]

\* a call that av left with an exception, from av.open (no container) or
\* from the first step of container.decode (a container nothing closes)
ContainersAfterError(clip) ==
    {containers,
     Append(containers, [clip |-> clip, decoded |-> 0, closed |-> FALSE])}

\* everything outside the presentation stays as run_and_rename left it
PptxFrame ==
    UNCHANGED <<entry, args, quality, filename, cmd, launched, running,
                rendererOut, rendererErr, returncode, result_stdout, output,
                matches, path_prefix, new_filenames, idx, fs, fsops, ret,
                wrote, fs0, run, prev, clipFrames, otherVars>>

\* generate_pptx.py lines 33-38: run_and_rename has returned the list, an
\* empty presentation is created
CreatePresentation ==
    /\ entry = "generate_pptx"
    /\ pc = "done"
    /\ prs' = <<>>
    /\ pc' = "slides"
    /\ UNCHANGED <<err, deck, containers>>
    /\ PptxFrame

\* the path the loop of line 41 is at
video_file == ret[Len(prs) + 1]

\* generate_pptx.py lines 41-53: one more slide; the slide is added and
\* named, then the poster is extracted and the movie embedded.  av.open
\* raises on a file it cannot decode.
AddSlide ==
    /\ entry = "generate_pptx"
    /\ pc = "slides"
    /\ Len(prs) < Len(ret)
    /\ LET clip == fs[video_file]
           n == clipFrames[clip]
           slide == [name |-> <<args.scene_name, video_file>>,
                     movie |-> <<>>, mime |-> "", poster |-> [none |-> TRUE]]
       IN  IF n = Undecodable
           THEN /\ prs' = Append(prs, slide)
                /\ containers' \in ContainersAfterError(clip)
                /\ Raise("InvalidDataError")
           ELSE /\ prs' = Append(prs,
                                 [slide EXCEPT
                                    !.movie = <<video_file, clip>>,
                                    !.mime = "video/mp4",
                                    !.poster = extract_first_frame_to_bytes(
                                                   FramesOf(clip, n))])
                /\ containers' =
                       Append(containers, Container(clip, FramesOf(clip, n)))
                /\ UNCHANGED <<pc, err>>
    /\ UNCHANGED deck
    /\ PptxFrame

\* generate_pptx.py line 55: prs.save('presentation.pptx') after the loop
Save ==
    /\ entry = "generate_pptx"
    /\ pc = "slides"
    /\ Len(prs) = Len(ret)
    /\ deck' = [exists |-> TRUE, slides |-> prs]
    /\ pc' = "saved"
    /\ UNCHANGED <<err, prs, containers>>
    /\ PptxFrame

Next ==
    \/ BuildCmd
    \/ RunRenderer
    \/ WaitRenderer
    \/ Parse
    \/ LoopHead
    \/ Remove
    \/ Rename
    \/ CallAgain
    \/ CreatePresentation
    \/ AddSlide
    \/ Save

Spec == Init /\ [][Next]_vars

----------------------------------------------------------------------------
(* The extraction on free text: the state of a run_and_rename call whose     *)
(* renderer has just exited after printing an arbitrary text                 *)

TextAlphabet == {"1", "_", "a", " ", "\n", "\r"}

ExtraSegmentsText == <<"1", "_", "2", "_", "3", "_", "4">>
AdjacentLettersText == <<"a", "1", "_", "2", "_", "3", "b">>
LetterInsideText == <<"1", "_", "x", "_", "3">>

\* the texts of length at most n over the alphabet, and the three tokens
FreeTexts(n) ==
    SeqsUpTo(TextAlphabet, n)
        \cup {ExtraSegmentsText, AdjacentLettersText, LetterInsideText}

InitExtract ==
    /\ entry = "run_and_rename"
    /\ args \in [filename : SourceFiles, scene_name : Scenes,
                 quality : {"2160p60"}]
    /\ pc = "parse"
    /\ quality = args.quality
    /\ filename = args.filename
    /\ cmd = Cmd(qualities[args.quality], args.filename, args.scene_name)
    /\ launched = TRUE
    /\ running = FALSE
    /\ rendererOut \in FreeTexts(MaxTextLen)
    /\ rendererErr = <<>>
    /\ returncode = 0
    /\ result_stdout = Captured(rendererOut, rendererErr)
    /\ output = <<>>
    /\ matches = <<>>
    /\ path_prefix = <<>>
    /\ new_filenames = <<>>
    /\ idx = 0
    /\ fs = [x \in {OtherFile(args, args.quality)} |-> x.name]
    /\ fsops = <<>>
    /\ err = "none"
    /\ ret = <<>>
    /\ wrote = {}
    /\ fs0 = fs
    /\ run = 1
    /\ prev = NoSnapshot
    /\ clipFrames = [c \in Clips |-> MaxFrames]
    /\ prs = <<>>
    /\ deck = NoDeck
    /\ containers = <<>>
    /\ SingleCall
    /\ NoSetup

NextExtract == Parse

SpecExtract == InitExtract /\ [][NextExtract]_vars

----------------------------------------------------------------------------
(* Two concurrent run_and_rename calls with the same arguments whose         *)
(* renderers have exited after printing the same identifiers: each call runs *)
(* the loop of lines 27-33 with its own locals on the one file system;       *)
(* nothing in render.py takes a lock, so the calls interleave between any    *)
(* two file-system calls                                                     *)

Procs == {1, 2}

NoPath == [dir |-> <<>>, name |-> <<>>]

\* the renderer output of the two calls: lines that each print an identifier
IdLines == {<<"a">> \o IdA, <<" ">> \o IdB \o <<" ">>}

ConcTexts ==
    {t \in {Terminated(ls, <<"\r", "\n">>) : ls \in SeqsUpTo(IdLines, MaxLines)} :
        LET m == findall(JoinedOutput(t))
        IN  /\ m # <<>>
            /\ \A i, j \in 1..Len(m) : m[i] = m[j] => i = j}

InitConcurrent ==
    /\ entry = "run_and_rename"
    /\ args \in [filename : SourceFiles, scene_name : Scenes,
                 quality : {"2160p60"}]
    /\ pc = "loop"
    /\ quality = args.quality
    /\ filename = args.filename
    /\ cmd = Cmd(qualities[args.quality], args.filename, args.scene_name)
    /\ launched = TRUE
    /\ running = FALSE
    /\ rendererOut \in ConcTexts
    /\ rendererErr = <<>>
    /\ returncode = 0
    /\ result_stdout = Captured(rendererOut, rendererErr)
    /\ output = JoinedOutput(result_stdout)
    /\ matches = findall(output)
    /\ path_prefix = PathPrefix(filename, quality, args.scene_name)
    /\ new_filenames = <<>>
    /\ idx = 1
    /\ wrote = {OldPath(path_prefix, matches[i]) : i \in 1..Len(matches)}
    /\ \E stale \in SUBSET StaleTargets(args, quality) :
          LET present == stale \cup {OtherFile(args, quality)} \cup wrote
          IN  fs = [x \in present |-> x.name]
    /\ fsops = <<>>
    /\ err = "none"
    /\ ret = <<>>
    /\ fs0 = fs
    /\ run = 1
    /\ prev = NoSnapshot
    /\ clipFrames = [c \in Clips |-> MaxFrames]
    /\ prs = <<>>
    /\ deck = NoDeck
    /\ containers = <<>>
    /\ procs = [p \in Procs |->
                  [pc |-> "loop", idx |-> 1, filename |-> args.filename,
                   new_filenames |-> <<>>, err |-> "none", failed |-> NoPath,
                   ret |-> <<>>]]
    /\ cops = <<>>
    /\ NoSetup

\* the paths of call p's current iteration (lines 28-29)
cnew_path(p) == NewPath(path_prefix, args.scene_name, procs[p].idx)
cold_path(p) == OldPath(path_prefix, procs[p].filename)

\* the two calls change their own locals and the shared file system only
ConcFrame ==
    UNCHANGED <<entry, args, pc, quality, filename, cmd, launched, running,
                rendererOut, rendererErr, returncode, result_stdout, output,
                matches, path_prefix, new_filenames, idx, fsops, err, ret,
                wrote, fs0, run, prev, clipFrames, prs, deck, containers,
                setupVars>>

\* an exception leaves call p; `failed` is the path of the failing call
CRaise(p, e, x) ==
    procs' = [procs EXCEPT ![p].pc = "raised", ![p].err = e, ![p].failed = x]

\* lines 27-30 and 35 in call p
CLoopHead(p) ==
    /\ procs[p].pc = "loop"
    /\ IF procs[p].idx > Len(matches)
       THEN procs' = [procs EXCEPT ![p].pc = "done",
                                   ![p].ret = procs[p].new_filenames]
       ELSE LET f == matches[procs[p].idx]
                np == NewPath(path_prefix, args.scene_name, procs[p].idx)
            IN  procs' = [procs EXCEPT
                            ![p].filename = f,
                            ![p].pc = IF exists(fs, np) THEN "remove"
                                      ELSE "rename"]
    /\ UNCHANGED <<fs, cops>>
    /\ ConcFrame

\* line 31 in call p
CRemove(p) ==
    /\ procs[p].pc = "remove"
    /\ IF cnew_path(p) \in DOMAIN fs
       THEN /\ fs' = Removed(fs, cnew_path(p))
            /\ cops' = Append(cops, [proc |-> p, op |-> "remove",
                                     path |-> cnew_path(p),
                                     src |-> cnew_path(p)])
            /\ procs' = [procs EXCEPT ![p].pc = "rename"]
       ELSE /\ CRaise(p, "FileNotFoundError", cnew_path(p))
            /\ fs' = AfterFailure(fs, fs0)
            /\ cops' = cops
    /\ ConcFrame

\* the rename of line 32 takes place in call p, then line 33
CMoves(p) ==
    /\ fs' = Renamed(fs, cold_path(p), cnew_path(p))
    /\ cops' = Append(cops, [proc |-> p, op |-> "rename",
                             path |-> cnew_path(p), src |-> cold_path(p)])
    /\ procs' = [procs EXCEPT
                    ![p].new_filenames = Append(procs[p].new_filenames,
                                                cnew_path(p)),
                    ![p].idx = procs[p].idx + 1,
                    ![p].pc = "loop"]

\* lines 32-33 in call p
CRename(p) ==
    /\ procs[p].pc = "rename"
    /\ IF cold_path(p) \notin DOMAIN fs
       THEN /\ CRaise(p, "FileNotFoundError", cold_path(p))
            /\ fs' = AfterFailure(fs, fs0)
            /\ cops' = cops
       ELSE IF cnew_path(p) \in DOMAIN fs
       THEN \/ CMoves(p)
            \/ /\ CRaise(p, "FileExistsError", cnew_path(p))
               /\ fs' = AfterFailure(fs, fs0)
               /\ cops' = cops
       ELSE CMoves(p)
    /\ ConcFrame

NextConcurrent ==
    \/ \E p \in Procs : CLoopHead(p)
    \/ \E p \in Procs : CRemove(p)
    \/ \E p \in Procs : CRename(p)

SpecConcurrent == InitConcurrent /\ [][NextConcurrent]_vars

----------------------------------------------------------------------------
(* setup_manim_windows.py: ManimWindowsSetup.run, one action per step.  The   *)
(* outcome of a download, of a child process and of a file write is the      *)
(* environment's choice.                                                     *)

\* sys.version_info of the interpreters the script may be started with
Versions == {<<2, 7>>, <<3, 10>>, <<3, 11>>, <<3, 12>>, <<3, 13>>, <<4, 0>>}

Systems == {"Windows", "Linux"}

\* self.ffmpeg_dir / "bin" (lines 28 and 159)
FfmpegBin == "ffmpeg_portable/bin"

\* the environment the script is started in: PATH unset, empty or set
Environs ==
    {[n \in {"TEMP"} |-> <<"tmp">>]}
        \cup {[n \in {"PATH", "TEMP"} |-> IF n = "PATH" THEN v ELSE <<"tmp">>] :
                v \in {<<>>, <<"sysbin">>}}

\* what the script may find under base_dir: no, a complete or a bin-less
\* ffmpeg_portable; no, a complete or an empty .venv
FfmpegFound ==
    {{}, {"ffmpeg_portable"}, {"ffmpeg_portable", "ffmpeg_portable/bin"}}

VenvFound == {{}, {".venv"}, {".venv", ".venv/python", ".venv/Scripts"}}

\* archive and temporary directory an interrupted earlier run left behind
Leftovers == {{}, {"ffmpeg.zip", "ffmpeg_temp"}}

\* a file name: stem and extension
File(stem, ext) == [stem |-> stem, ext |-> ext]

\* the ffmpeg bin directory of the usual archive, and one that also holds
\* an interpreter, a pip and a text file
BinListings ==
    {{File("avcodec", "dll"), File("ffmpeg", "exe")},
     {File("avcodec", "dll"), File("ffmpeg", "exe"), File("Python", "exe"),
      File("pip", "exe"), File("LICENSE", "txt")}}

\* str.lower() of a file name
Lower(f) ==
    [f EXCEPT !.stem = CASE f.stem = "Python"  -> "python"
                         [] f.stem = "LICENSE" -> "license"
                         [] OTHER              -> f.stem]

\* line 217: ['python.exe', 'pip.exe']
Protected == {File("python", "exe"), File("pip", "exe")}

\* lines 125-137: the interpreter and the pip that python -m venv puts into
\* the scripts directory
VenvScripts(sys) ==
    IF sys = "Windows"
    THEN [n \in {File("python", "exe"), File("pip", "exe")} |-> "venv"]
    ELSE [n \in {File("python", ""), File("pip", "")} |-> "venv"]

\* the scripts directory of a venv found: as created, without its pip, or
\* with an ffmpeg.exe put there before
ScriptsFound(sys) ==
    {VenvScripts(sys),
     [n \in {CHOOSE m \in DOMAIN VenvScripts(sys) : m.stem = "python"} |-> "venv"],
     [n \in DOMAIN VenvScripts(sys) \cup {File("ffmpeg", "exe")} |->
         IF n.stem = "ffmpeg" THEN "old" ELSE "venv"]}

\* env.get(name, default) and env[name] = value on a dict
get(e, n, default) == IF n \in DOMAIN e THEN e[n] ELSE default

setitem(e, n, v) == [m \in DOMAIN e \cup {n} |-> IF m = n THEN v ELSE e[m]]

\* lines 160-163 and 547-550: the PATH text with the ffmpeg bin directory
\* in front, separated by ';' on Windows and ':' elsewhere
Prepended(e, sys) ==
    <<FfmpegBin, IF sys = "Windows" THEN ";" ELSE ":">> \o get(e, "PATH", <<>>)

\* lines 156-163 and 545-550: env = os.environ.copy(), then env["PATH"] is
\* set on the copy; `own` is os.environ afterwards, `child` the dict handed
\* to subprocess.run
ChildEnvInPlace(e, sys) ==
    [own |-> setitem(e, "PATH", Prepended(e, sys)),
     child |-> setitem(e, "PATH", Prepended(e, sys))]

ChildEnv(e, sys) ==
    [own |-> e, child |-> setitem(e, "PATH", Prepended(e, sys))]

InitSetup ==
    /\ step = "check_python_version"
    /\ exitcode = -1
    /\ version \in Versions
    /\ system \in Systems
    /\ environ \in Environs
    /\ systemPath = get(environ, "PATH", <<>>)
    /\ children = <<>>
    /\ \E f \in FfmpegFound, v \in VenvFound, l \in Leftovers :
          /\ disk = f \cup v \cup l
          /\ ffbin \in (IF f = {"ffmpeg_portable"} THEN {{}} ELSE BinListings)
          /\ scripts \in (IF ".venv/Scripts" \in v THEN ScriptsFound(system)
                          ELSE {<<>>})
    /\ warned = {}
    /\ ran = <<>>
    /\ entry = "none"
    /\ args = [filename |-> <<>>, scene_name |-> <<>>, quality |-> ""]
    /\ Entered
    /\ fs = <<>>
    /\ fs0 = fs
    /\ run = 1
    /\ prev = NoSnapshot
    /\ clipFrames = [c \in Clips |-> MaxFrames]
    /\ deck = NoDeck
    /\ containers = <<>>
    /\ SingleCall

\* the setup script changes nothing of the other programs' state
SetupFrame ==
    UNCHANGED <<entry, args, pc, quality, filename, cmd, launched, running,
                rendererOut, rendererErr, returncode, result_stdout, output,
                matches, path_prefix, new_filenames, idx, fs, fsops, err, ret,
                wrote, fs0, run, prev, clipFrames, prs, deck, containers, procs,
                cops,
                version, system, systemPath>>

\* lines 676-731: the steps in the order in which run() calls them
OrderInstallFirst ==
    <<"check_python_version", "download_ffmpeg", "create_venv",
      "install_packages", "upgrade_pip", "copy_ffmpeg_dlls_to_venv",
      "create_pth_file", "create_sitecustomize",
      "create_render_script_template", "create_manim_bat_wrapper",
      "create_activation_script", "create_readme", "run_healthcheck">>

Order ==
    <<"check_python_version", "download_ffmpeg", "create_venv",
      "upgrade_pip", "install_packages", "copy_ffmpeg_dlls_to_venv",
      "create_pth_file", "create_sitecustomize",
      "create_render_script_template", "create_manim_bat_wrapper",
      "create_activation_script", "create_readme", "run_healthcheck">>

\* what run() does after the step s has returned: the next call, or the
\* SETUP COMPLETED SUCCESSFULLY message after the last
After(s) ==
    LET i == CHOOSE k \in 1..Len(Order) : Order[k] = s
    IN  IF i = Len(Order) THEN "completed" ELSE Order[i + 1]

\* the step returns and run() goes on with the next one; after the last
\* one run() returns and the process ends with status 0
GoOn(failure) ==
    /\ step' = After(step)
    /\ exitcode' = IF After(step) = "completed" THEN 0 ELSE exitcode
    /\ ran' = Append(ran, [step |-> step, failure |-> failure,
                           outcome |-> "returned"])

\* sys.exit(code) in the step itself
Exit(code, failure) ==
    /\ step' = "exited"
    /\ exitcode' = code
    /\ ran' = Append(ran, [step |-> step, failure |-> failure,
                           outcome |-> "exit"])

\* lines 742-745: an exception no step caught reaches the handler of run(),
\* which logs it and calls sys.exit(1)
Propagate(failure) ==
    /\ step' = "exited"
    /\ exitcode' = 1
    /\ ran' = Append(ran, [step |-> step, failure |-> failure,
                           outcome |-> "raised"])

\* self.log(..., "WARN") in the current step
Warn == warned' = warned \cup {step}

\* subprocess.run starts a child with the given environment
StartChild(argv, env) ==
    children' = Append(children, [by |-> step, argv |-> argv, env |-> env])

\* line 43: the version test of check_python_version
TooOldMinorOnly(v) == v[2] < 11

TooOld(v) == v[1] < 3 \/ (v[1] = 3 /\ v[2] < 11)

\* lines 37-55
CheckPythonVersion ==
    /\ step = "check_python_version"
    /\ IF TooOld(version)
       THEN Exit(1, "version") /\ warned' = warned
       ELSE /\ GoOn("none")
            /\ IF version[2] < 13 THEN Warn ELSE warned' = warned
    /\ UNCHANGED <<environ, children, disk, ffbin, scripts>>
    /\ SetupFrame

\* what exists of ffmpeg.zip and ffmpeg_temp when the download (line 77),
\* the extraction (lines 83-84), the test of line 89 or the move (line 92)
\* raises
Partial(failure) ==
    CASE failure = "download" -> {{}, {"ffmpeg.zip"}}
      [] failure = "extract"  -> {{"ffmpeg.zip"}, {"ffmpeg.zip", "ffmpeg_temp"}}
      [] OTHER                -> {{"ffmpeg.zip", "ffmpeg_temp"}}

\* lines 103-107: the handler removes ffmpeg.zip and ffmpeg_temp where they
\* exist
CleanedUpZipOnly(d) == d \ {"ffmpeg.zip"}

CleanedUp(d) == d \ {"ffmpeg.zip", "ffmpeg_temp"}

\* lines 57-108: skipped when ffmpeg_portable exists; otherwise download,
\* extract, move, remove the archive and the temporary directory; an
\* exception on the way is handled by cleaning up and sys.exit(1)
DownloadFfmpeg ==
    /\ step = "download_ffmpeg"
    /\ IF "ffmpeg_portable" \in disk
       THEN GoOn("none") /\ disk' = disk
       ELSE \/ /\ disk' = ((disk \cup {"ffmpeg.zip", "ffmpeg_temp",
                                       "ffmpeg_portable", "ffmpeg_portable/bin"})
                              \ {"ffmpeg_temp"}) \ {"ffmpeg.zip"}
               /\ GoOn("none")
            \/ \E failure \in {"download", "extract", "empty", "move"} :
                 \E left \in Partial(failure) :
                    /\ disk' = CleanedUp(disk \cup left)
                    /\ Exit(1, failure)
    /\ UNCHANGED <<environ, children, warned, ffbin, scripts>>
    /\ SetupFrame

\* lines 110-123: python -m venv with the inherited environment
CreateVenv ==
    /\ step = "create_venv"
    /\ IF ".venv" \in disk
       THEN GoOn("none") /\ UNCHANGED <<children, disk, scripts>>
       ELSE /\ StartChild("venv", environ)
            /\ \/ /\ disk' = disk \cup {".venv", ".venv/python", ".venv/Scripts"}
                  /\ scripts' = VenvScripts(system)
                  /\ GoOn("none")
               \/ /\ disk' = disk
                  /\ scripts' = scripts
                  /\ Exit(1, "CalledProcessError")
    /\ UNCHANGED <<environ, warned, ffbin>>
    /\ SetupFrame

\* lines 139-148: a failing pip is a warning; a missing interpreter is no
\* CalledProcessError and ends run() through its handler
UpgradePip ==
    /\ step = "upgrade_pip"
    /\ IF ".venv/python" \notin disk
       THEN Propagate("FileNotFoundError") /\ UNCHANGED <<children, warned>>
       ELSE /\ StartChild("pip install --upgrade pip", environ)
            /\ \/ GoOn("none") /\ warned' = warned
               \/ GoOn("CalledProcessError") /\ Warn
    /\ UNCHANGED <<environ, disk, ffbin, scripts>>
    /\ SetupFrame

\* lines 150-183: pip install manim with the ffmpeg bin directory in front
\* of the child's PATH; a failing pip exits with status 1
InstallPackages ==
    /\ step = "install_packages"
    /\ LET r == ChildEnv(environ, system)
       IN  /\ environ' = r.own
           /\ StartChild("pip install manim", r.child)
    /\ \/ GoOn("none")
       \/ Exit(1, "CalledProcessError")
    /\ UNCHANGED <<disk, warned, ffbin, scripts>>
    /\ SetupFrame

\* line 217: the test that decides whether an .exe is copied
ShouldCopyAlways(f, destExists) == TRUE

ShouldCopy(f, destExists) == ~destExists \/ Lower(f) \notin Protected

\* the file of the directory that the path venv_scripts / f.name denotes:
\* Windows finds an existing file whatever the case of its name
Dest(f, dir, sys) ==
    IF sys = "Windows" /\ \E n \in DOMAIN dir : Lower(n) = Lower(f)
    THEN CHOOSE n \in DOMAIN dir : Lower(n) = Lower(f)
    ELSE f

\* lines 207-218: the files the two loops copy when nothing raises
ToCopy(bin, dir, sys) ==
    {f \in bin : f.ext = "dll"}
        \cup {f \in bin : /\ f.ext = "exe"
                          /\ ShouldCopy(f, Dest(f, dir, sys) \in DOMAIN dir)}

\* shutil.copy2 of the files c into the directory
Copied(dir, c, sys) ==
    [n \in DOMAIN dir \cup {Dest(f, dir, sys) : f \in c} |->
        IF \E f \in c : Dest(f, dir, sys) = n THEN "ffmpeg" ELSE dir[n]]

\* what a copy that raised had copied before: some of the .dll files, or
\* all of them and some of the .exe files
CopiedBeforeError(all) ==
    {c \in SUBSET all :
        /\ c # all
        /\ (\E f \in c : f.ext = "exe") =>
              \A f \in all : f.ext = "dll" => f \in c}

\* lines 185-226
CopyFfmpegDlls ==
    /\ step = "copy_ffmpeg_dlls_to_venv"
    /\ IF "ffmpeg_portable/bin" \notin disk \/ ".venv/Scripts" \notin disk
       THEN /\ Warn
            /\ scripts' = scripts
            /\ GoOn("missing")
       ELSE LET all == ToCopy(ffbin, scripts, system)
            IN  \/ /\ scripts' = Copied(scripts, all, system)
                   /\ warned' = warned
                   /\ GoOn("none")
                \/ \E c \in CopiedBeforeError(all) :
                      /\ scripts' = Copied(scripts, c, system)
                      /\ Warn
                      /\ GoOn("Exception")
    /\ UNCHANGED <<environ, children, disk, ffbin>>
    /\ SetupFrame

\* lines 228-260 and 262-327: ask the venv's interpreter for its
\* site-packages directory and write the file there; any failure is a
\* warning
WriteIntoSitePackages(file) ==
    /\ StartChild("site.getsitepackages", environ)
    /\ \/ disk' = disk \cup {file} /\ warned' = warned /\ GoOn("none")
       \/ disk' = disk /\ Warn /\ GoOn("Exception")
    /\ UNCHANGED <<environ, ffbin, scripts>>
    /\ SetupFrame

CreatePthFile ==
    /\ step = "create_pth_file"
    /\ WriteIntoSitePackages("ffmpeg_path.pth")

CreateSitecustomize ==
    /\ step = "create_sitecustomize"
    /\ WriteIntoSitePackages("sitecustomize.py")

\* a file written under base_dir outside any try block: a failing write
\* ends run() through its handler
WriteFile(file) ==
    /\ \/ disk' = disk \cup {file} /\ GoOn("none")
       \/ disk' = disk /\ Propagate("OSError")
    /\ UNCHANGED <<environ, children, warned, ffbin, scripts>>
    /\ SetupFrame

\* lines 329-433
CreateRenderScriptTemplate ==
    /\ step = "create_render_script_template"
    /\ WriteFile("render_manim.py")

\* lines 435-462
CreateManimBatWrapper ==
    /\ step = "create_manim_bat_wrapper"
    /\ WriteFile("manim.bat")

\* lines 464-537
CreateActivationScript ==
    /\ step = "create_activation_script"
    /\ WriteFile(IF system = "Windows" THEN "activate_manim.bat"
                 ELSE "activate_manim.sh")

\* lines 580-670
CreateReadme ==
    /\ step = "create_readme"
    /\ WriteFile("MANIM_SETUP_README.md")

\* lines 539-578: manim checkhealth with the ffmpeg bin directory in front
\* of the child's PATH; a non-zero status, a timeout and any other failure
\* are warnings; run() then logs SETUP COMPLETED SUCCESSFULLY and returns
RunHealthcheck ==
    /\ step = "run_healthcheck"
    /\ LET r == ChildEnv(environ, system)
       IN  /\ environ' = r.own
           /\ StartChild("manim checkhealth", r.child)
    /\ \/ warned' = warned /\ GoOn("none")
       \/ \E failure \in {"returncode", "TimeoutExpired", "Exception"} :
             Warn /\ GoOn(failure)
    /\ UNCHANGED <<disk, ffbin, scripts>>
    /\ SetupFrame

\* lines 738-740: Ctrl-C during a step is no Exception: no handler of a
\* step sees it, run() logs it and calls sys.exit(1); an interrupted download
\* leaves what it had written
Interrupt ==
    /\ step \notin {"none", "exited", "completed"}
    /\ step' = "exited"
    /\ exitcode' = 1
    /\ ran' = Append(ran, [step |-> step, failure |-> "KeyboardInterrupt",
                           outcome |-> "interrupted"])
    /\ IF step = "download_ffmpeg" /\ "ffmpeg_portable" \notin disk
       THEN \E left \in {{}, {"ffmpeg.zip"}, {"ffmpeg.zip", "ffmpeg_temp"}} :
               disk' = disk \cup left
       ELSE disk' = disk
    /\ UNCHANGED <<environ, children, warned, ffbin, scripts>>
    /\ SetupFrame

NextSetup ==
    \/ CheckPythonVersion
    \/ DownloadFfmpeg
    \/ CreateVenv
    \/ UpgradePip
    \/ InstallPackages
    \/ CopyFfmpegDlls
    \/ CreatePthFile
    \/ CreateSitecustomize
    \/ CreateRenderScriptTemplate
    \/ CreateManimBatWrapper
    \/ CreateActivationScript
    \/ CreateReadme
    \/ RunHealthcheck
    \/ Interrupt

SpecSetup == InitSetup /\ [][NextSetup]_vars

----------------------------------------------------------------------------
(* Vocabulary of the properties *)

\* the call is run_and_rename and has passed line 25
Parsed == entry = "run_and_rename" /\ idx >= 1

\* s is digits, "_", digits, "_", digits and nothing else
IsThreePart(s) ==
    LET seps == {i \in 1..Len(s) : s[i] = "_"}
    IN  /\ Cardinality(seps) = 2
        /\ \A i \in 1..Len(s) : i \notin seps => s[i] \in Digit
        /\ \A i \in seps : 1 < i /\ i < Len(s) /\ i + 1 \notin seps

\* some three-part identifier starts at position p of t
StartsAt(t, p) == \E e \in p..Len(t) : IsThreePart(SubSeq(t, p, e))

\* t contains no three-part identifier
NoOccurrence(t) == \A p \in 1..Len(t) : ~StartsAt(t, p)

\* s is a contiguous part of t
Occurs(s, t) ==
    \E p \in 1..(Len(t) - Len(s) + 1) : SubSeq(t, p, p + Len(s) - 1) = s

\* no element of the sequence occurs twice
Distinct(q) == \A i, j \in 1..Len(q) : i # j => q[i] # q[j]

----------------------------------------------------------------------------
(* C1 *)

\* C1: in run_and_rename a file that exists at the target path of position i
\* is removed before the original is renamed onto that path: no rename is
\* performed onto a path that exists at the moment of the rename, and the
\* delete of a target is directly followed by the rename onto it.
C1_DeleteBeforeRename ==
    /\ pc = "rename" => new_path \notin DOMAIN fs
    /\ \A k \in 1..Len(fsops) :
          /\ fsops[k].op = "rename" => ~fsops[k].existed
          /\ (fsops[k].op = "rename" /\ fsops[k].path \in DOMAIN fs0) =>
                /\ k > 1
                /\ fsops[k - 1].op = "remove"
                /\ fsops[k - 1].path = fsops[k].path
          /\ (fsops[k].op = "remove" /\ k < Len(fsops)) =>
                /\ fsops[k + 1].op = "rename"
                /\ fsops[k + 1].path = fsops[k].path

\* a stale target was deleted and the original then renamed onto its path
C1_Witness ==
    \E k \in 1..Len(fsops) :
        /\ k > 1
        /\ fsops[k].op = "rename"
        /\ fsops[k - 1].op = "remove"
        /\ fsops[k].path \in DOMAIN fs0

----------------------------------------------------------------------------
(* C2 *)

\* the call is a repeated run_and_rename call whose renderer has exited
Repeated == entry = "run_and_rename" /\ run > 1 /\ launched

\* C2 as stated: a second call in a row with the same arguments, the
\* renderer recreating no output file in between, completes and leaves the
\* same files as the first call.
C2_AsStated ==
    (Repeated /\ wrote = {} /\ pc \in {"done", "raised"}) =>
        (pc = "done" /\ fs = prev.fs)

\* C2 amended: a second call in a row with the same arguments, the renderer
\* writing the same output files again in between, completes like the call
\* before it, returns the same paths and leaves the same files with the
\* same contents.
C2_RerunIdempotent ==
    (Repeated /\ wrote = prev.wrote) =>
        /\ pc # "raised"
        /\ pc = "done" => (fs = prev.fs /\ ret = prev.ret)

\* a repeated call has replaced the targets of the call before it
C2_Witness ==
    /\ Repeated /\ wrote = prev.wrote /\ pc = "done"
    /\ Len(ret) = 2
    /\ \E k \in 1..Len(fsops) : fsops[k].op = "remove"

----------------------------------------------------------------------------
(* C3 *)

----------------------------------------------------------------------------
(* C4 *)

\* the i-th target path as the specification words it
TargetOf(i) ==
    [dir |-> <<"media", "videos", splitext0(args.filename), args.quality,
               "partial_movie_files", args.scene_name>>,
     name |-> args.scene_name \o <<"_", DigitChar(i)>> \o <<".", "m", "p", "4">>]

\* the original path of the i-th identifier
OriginalOf(i) == [dir |-> TargetOf(i).dir, name |-> matches[i] \o Mp4]

\* C4: for n pairwise distinct identifiers whose originals all exist when
\* the reconciliation starts, run_and_rename raises nothing and returns n
\* paths, the i-th being the output directory followed by {scene}_{i}.mp4;
\* then the i-th target holds what the i-th original held and the original
\* path is gone.
C4_TargetsInOrder ==
    (/\ Parsed
     /\ Distinct(matches)
     /\ \A i \in 1..Len(matches) : OriginalOf(i) \in DOMAIN fs0) =>
        /\ pc # "raised"
        /\ pc = "done" =>
              /\ Len(ret) = Len(matches)
              /\ \A i \in 1..Len(matches) :
                    /\ ret[i] = TargetOf(i)
                    /\ ret[i] \in DOMAIN fs
                    /\ fs[ret[i]] = fs0[OriginalOf(i)]
                    /\ OriginalOf(i) \notin DOMAIN fs

\* two distinct identifiers were reconciled
C4_Witness ==
    /\ Parsed /\ pc = "done"
    /\ Len(matches) = 2 /\ matches[1] # matches[2]
    /\ ret = <<TargetOf(1), TargetOf(2)>>

----------------------------------------------------------------------------
(* C5 *)

FiveLabels == {"480p15", "720p30", "1080p60", "1440p60", "2160p60"}

\* C5: the quality lookup succeeds for exactly the five defined labels and
\* raises for every other label, in run_and_rename and in just_run.
C5_LookupTotalOnFive ==
    pc # "start" =>
        IF quality \in FiveLabels
        THEN /\ err # "KeyError"
             /\ Len(cmd) = 4
             /\ cmd[2] \in {"-ql", "-qm", "-qh", "-qp", "-qk"}
        ELSE /\ pc = "raised"
             /\ err = "KeyError"
             /\ cmd = <<>>
             /\ ~launched

\* a label outside the table raised
C5_Witness == pc = "raised" /\ err = "KeyError" /\ quality \notin FiveLabels

----------------------------------------------------------------------------
(* C6 *)

\* t is four or more groups of digits separated by single underscores
ExtraSegments(t) ==
    /\ t # <<>>
    /\ \A i \in 1..Len(t) : t[i] \in Digit \cup {"_"}
    /\ t[1] \in Digit /\ t[Len(t)] \in Digit
    /\ \A i \in 1..(Len(t) - 1) : ~(t[i] = "_" /\ t[i + 1] = "_")
    /\ Cardinality({i \in 1..Len(t) : t[i] = "_"}) >= 3

\* t is one token (no blank, no line break) with a character that is
\* neither a digit nor an underscore
NonNumericToken(t) ==
    /\ \A i \in 1..Len(t) : t[i] \notin Whitespace
    /\ \E i \in 1..Len(t) : t[i] \notin Digit \cup {"_"}

\* C6 as stated: a token with extra underscore-separated segments, or with
\* non-numeric characters next to or inside the groups, yields no match.
C6_AsStated ==
    (Parsed /\ (ExtraSegments(output) \/ NonNumericToken(output))) =>
        matches = <<>>

\* C6 amended: every extracted identifier is exactly three groups of digits
\* separated by single underscores, and the scan finds one whenever the text
\* contains one: the pattern is not anchored, so a token with extra segments
\* yields its first three groups (1_2_3_4 gives 1_2_3), a token with
\* non-numeric characters around the groups yields the identifier inside it
\* (a1_2_3b gives 1_2_3), and only a text without three adjacent groups
\* (1_x_3) yields no match.
C6_Unanchored ==
    Parsed =>
        /\ \A i \in 1..Len(matches) :
              IsThreePart(matches[i]) /\ Occurs(matches[i], output)
        /\ matches = <<>> <=> NoOccurrence(output)
        /\ ExtraSegments(output) =>
              /\ matches # <<>>
              /\ matches[1] = SubSeq(output, 1, Len(matches[1]))
        /\ output = ExtraSegmentsText => matches = << <<"1", "_", "2", "_", "3">> >>
        /\ output = AdjacentLettersText => matches = << <<"1", "_", "2", "_", "3">> >>
        /\ output = LetterInsideText => matches = <<>>

\* the token with a fourth segment gave its first three groups
C6_Witness ==
    /\ Parsed
    /\ output = ExtraSegmentsText
    /\ matches = << <<"1", "_", "2", "_", "3">> >>

----------------------------------------------------------------------------
(* C7 *)

\* the positions of the scanned text between the matches
Gaps(t, sp) ==
    {p \in 1..Len(t) : \A i \in 1..Len(sp) : p < sp[i][1] \/ p > sp[i][2]}

\* C7: the extraction returns every match in the scanned text in order of
\* occurrence and drops none: the list has one entry per match position,
\* left to right, the matches do not overlap, no identifier starts between
\* them, and an identifier matched k times is listed k times.
C7_AllMatchesInOrder ==
    Parsed =>
        LET sp == FindSpans(output, 1)
        IN  /\ Len(matches) = Len(sp)
            /\ \A i \in 1..Len(sp) :
                  /\ matches[i] = SubSeq(output, sp[i][1], sp[i][2])
                  /\ IsThreePart(matches[i])
                  /\ i < Len(sp) => sp[i][2] < sp[i + 1][1]
            /\ \A p \in Gaps(output, sp) : ~StartsAt(output, p)
            /\ \A x \in IdPool :
                  Cardinality({i \in 1..Len(matches) : matches[i] = x})
                    = Cardinality({p \in 1..Len(output) :
                            /\ p + Len(x) - 1 <= Len(output)
                            /\ SubSeq(output, p, p + Len(x) - 1) = x
                            /\ \E i \in 1..Len(sp) :
                                  sp[i] = <<p, p + Len(x) - 1>>})

\* the same identifier was printed twice and is listed twice
C7_Witness ==
    /\ Parsed
    /\ Len(matches) = 2
    /\ matches[1] = matches[2]

----------------------------------------------------------------------------
(* C8 *)

Squeezed(t) == SelectSeq(t, LAMBDA c : c \notin Whitespace)

----------------------------------------------------------------------------
(* C9 *)

\* the captured text without its line terminators
WithoutLineEnds(t) == SelectSeq(t, LAMBDA c : c \notin LineBreak)

\* position i of t lies on the same line as position j
SameLine(t, i, j) ==
    \A m \in 1..Len(t) :
        ((i <= m /\ m <= j) \/ (j <= m /\ m <= i)) => t[m] \notin LineBreak

\* position i of t survives: it is no line terminator and no blank at the
\* start or the end of its line
Kept(t, i) ==
    \/ t[i] \notin Whitespace
    \/ /\ \E j \in 1..(i - 1) : t[j] \notin Whitespace /\ SameLine(t, j, i)
       /\ \E j \in (i + 1)..Len(t) : t[j] \notin Whitespace /\ SameLine(t, i, j)

RECURSIVE KeptText(_, _)
KeptText(t, i) ==
    IF i > Len(t) THEN <<>>
    ELSE (IF Kept(t, i) THEN <<t[i]>> ELSE <<>>) \o KeptText(t, i + 1)

\* C9 as stated: the scanned text is the captured lines, in order, with
\* only their line terminators removed, and holds no newline.
C9_AsStated ==
    Parsed =>
        /\ output = WithoutLineEnds(result_stdout)
        /\ \A i \in 1..Len(output) : output[i] \notin LineBreak

\* C9 amended: the scanned text is the captured lines, in order, with their
\* line terminators and the whitespace at the start and end of every line
\* removed, and holds no newline.
C9_StrippedLinesJoined ==
    Parsed =>
        /\ output = KeptText(result_stdout, 1)
        /\ \A i \in 1..Len(output) : output[i] \notin LineBreak

\* a line ending in a blank was joined to the next line
C9_Witness ==
    /\ Parsed
    /\ \E i \in 2..(Len(result_stdout) - 2) :
          /\ result_stdout[i] = " "
          /\ result_stdout[i + 1] \in LineBreak
          /\ result_stdout[i - 1] \notin Whitespace
          /\ result_stdout[i + 2] \notin Whitespace
    /\ \A i \in 1..Len(output) : output[i] # " "

----------------------------------------------------------------------------
(* C10 *)

\* C10: run_and_rename does not look at the renderer's exit status: after a
\* non-zero exit nothing is raised for it, the captured text is parsed and
\* reconciled, and an error can only come out of the reconciliation loop.
C10_ExitStatusIgnored ==
    (entry = "run_and_rename" /\ launched /\ returncode # 0) =>
        /\ pc \in {"parse", "loop", "remove", "rename", "done", "raised"}
        /\ err # "CalledProcessError"
        /\ pc = "raised" => (idx >= 1 /\ err \in {"FileNotFoundError", "FileExistsError"})
        /\ result_stdout = rendererOut
        /\ idx >= 1 => matches = findall(JoinedOutput(rendererOut))

\* the renderer failed and its partial movie files were renamed all the same
C10_Witness ==
    /\ entry = "run_and_rename" /\ launched /\ returncode # 0
    /\ pc = "done"
    /\ Len(ret) >= 1

----------------------------------------------------------------------------
(* C11 *)

\* the loop failed at position idx of the identifiers
FailedAt(k) == Parsed /\ pc = "raised" /\ idx = k

\* C11: the reconciliation has no rollback.  When the rename at position k
\* fails, the error leaves run_and_rename and no list is returned; the
\* k-1 renames already made stay in effect (each target exists and holds
\* what its original held); the target path of position k is absent, a
\* pre-existing one having been deleted by the wrapper and not restored;
\* and no file-system call was made for the positions k+1..n, whose targets
\* are as they were when the renderer exited, as are their originals unless
\* an earlier position carried the same identifier.
C11_NoRollback ==
    \A k \in 1..Len(matches) :
        FailedAt(k) =>
            /\ err \in {"FileNotFoundError", "FileExistsError"}
            /\ ret = <<>>
            /\ Len(new_filenames) = k - 1
            /\ \A i \in 1..(k - 1) :
                  /\ new_filenames[i] = TargetOf(i)
                  /\ TargetOf(i) \in DOMAIN fs
                  /\ fs[TargetOf(i)] = fs0[OriginalOf(i)]
                  /\ OriginalOf(i) \notin DOMAIN fs
            /\ TargetOf(k) \notin DOMAIN fs
            /\ TargetOf(k) \in DOMAIN fs0 =>
                  /\ Len(fsops) >= 1
                  /\ fsops[Len(fsops)].op = "remove"
                  /\ fsops[Len(fsops)].path = TargetOf(k)
            /\ \A i \in (k + 1)..Len(matches) :
                  /\ \A j \in 1..Len(fsops) :
                        /\ fsops[j].path # TargetOf(i)
                        /\ fsops[j].src # TargetOf(i)
                  /\ TargetOf(i) \in DOMAIN fs <=> TargetOf(i) \in DOMAIN fs0
                  /\ TargetOf(i) \in DOMAIN fs => fs[TargetOf(i)] = fs0[TargetOf(i)]
                  /\ (\A j \in 1..(k - 1) : matches[j] # matches[i]) =>
                        /\ OriginalOf(i) \in DOMAIN fs <=> OriginalOf(i) \in DOMAIN fs0
                        /\ OriginalOf(i) \in DOMAIN fs =>
                              fs[OriginalOf(i)] = fs0[OriginalOf(i)]

\* the second of two renames failed after the first was made and after the
\* stale second target was deleted
C11_Witness ==
    /\ FailedAt(2)
    /\ Len(matches) = 2
    /\ TargetOf(1) \in DOMAIN fs
    /\ TargetOf(2) \in DOMAIN fs0
    /\ TargetOf(2) \notin DOMAIN fs
    /\ fsops[Len(fsops)].op = "remove"

----------------------------------------------------------------------------
(* C12 *)

\* C12: the renderer is started and waited on until it has exited before the
\* wrapper extracts anything or deletes or renames a file: while the
\* renderer runs the wrapper sits in subprocess.run, has captured and
\* parsed nothing and has made no file-system call; and whenever the
\* wrapper is at the extraction or in the loop, or has made a file-system
\* call, the renderer was started by this call and has exited.
C12_WaitsForRenderer ==
    /\ running =>
          /\ pc = "wait"
          /\ launched
          /\ result_stdout = <<>>
          /\ matches = <<>>
          /\ idx = 0
          /\ fsops = <<>>
    /\ (pc \in {"parse", "loop", "remove", "rename"} \/ idx >= 1 \/ fsops # <<>>) =>
          /\ launched
          /\ ~running

\* the renderer has exited and the wrapper has since deleted a stale target
\* and renamed an original
C12_Witness ==
    /\ entry = "run_and_rename"
    /\ launched
    /\ ~running
    /\ Len(fsops) >= 2
    /\ fsops[1].op = "remove"
    /\ fsops[2].op = "rename"

----------------------------------------------------------------------------
(* C13 *)

\* the flag the table of lines 6-12 gives for the label in use
FlagInUse ==
    CASE QualityInUse = "480p15" -> "-ql"
      [] QualityInUse = "720p30" -> "-qm"
      [] QualityInUse = "1080p60" -> "-qh"
      [] QualityInUse = "1440p60" -> "-qp"
      [] QualityInUse = "2160p60" -> "-qk"
      [] OTHER -> "none"

\* C13: every renderer invocation of run_and_rename and just_run has exactly
\* three arguments after the executable: the flag of the quality label in
\* use, the source path and the scene name, in this order.
C13_ThreeArguments ==
    (pc \in {"run", "wait"} \/ launched) =>
        /\ Len(cmd) = 4
        /\ cmd[1] = "manim"
        /\ cmd[2] = FlagInUse
        /\ cmd[2] = qualities[QualityInUse]
        /\ cmd[3] = args.filename
        /\ cmd[4] = args.scene_name

\* just_run has started the renderer with the flag of '720p30'
C13_Witness ==
    /\ entry = "just_run"
    /\ launched
    /\ cmd = <<"manim", "-qm", args.filename, args.scene_name>>

----------------------------------------------------------------------------
(* C14 *)

\* the path has the form
\* media/videos/{source-stem}/{quality}/partial_movie_files/{scene}/{name}.mp4
InOutputDir(x) ==
    /\ Len(x.dir) = 6
    /\ x.dir[1] = "media"
    /\ x.dir[2] = "videos"
    /\ x.dir[3] \o <<".", "p", "y">> = args.filename
    /\ x.dir[4] = args.quality
    /\ x.dir[5] = "partial_movie_files"
    /\ x.dir[6] = args.scene_name
    /\ Len(x.name) > 4
    /\ SubSeq(x.name, Len(x.name) - 3, Len(x.name)) = <<".", "m", "p", "4">>

\* C14: every path run_and_rename deletes, renames from, renames to or
\* returns lies in the one directory media/videos/{source-stem}/{quality}/
\* partial_movie_files/{scene} built from the caller's arguments and ends
\* in .mp4.
C14_PathTemplate ==
    entry = "run_and_rename" =>
        /\ \A k \in 1..Len(fsops) :
              InOutputDir(fsops[k].path) /\ InOutputDir(fsops[k].src)
        /\ \A k \in 1..Len(new_filenames) : InOutputDir(new_filenames[k])
        /\ \A k \in 1..Len(ret) : InOutputDir(ret[k])
        /\ pc \in {"remove", "rename"} =>
              InOutputDir(new_path) /\ InOutputDir(old_path)

\* a call returned two paths after deleting a stale target
C14_Witness ==
    /\ entry = "run_and_rename"
    /\ pc = "done"
    /\ Len(ret) = 2
    /\ \E k \in 1..Len(fsops) : fsops[k].op = "remove"

----------------------------------------------------------------------------
(* C15 *)

\* C15: the quality table gives the five labels five different flags, so
\* the flag on a command line names the label in use: no other label of
\* the table has that flag.
C15_DistinctFlags ==
    /\ Cardinality({qualities[q] : q \in FiveLabels}) = 5
    /\ (pc \in {"run", "wait"} \/ launched) =>
          \A q \in FiveLabels : qualities[q] = cmd[2] => q = QualityInUse

\* a command line was built for '1440p60'
C15_Witness ==
    /\ entry = "run_and_rename"
    /\ quality = "1440p60"
    /\ launched
    /\ cmd[2] = "-qp"

----------------------------------------------------------------------------
(* C19 *)

\* the renames made by the current call
RenamesMade == {k \in 1..Len(fsops) : fsops[k].op = "rename"}

\* C19 as stated: every entry point of the render module that invokes the
\* renderer goes on to parse its output and rename the generated files: a
\* call that started the renderer and returned has parsed.
C19_AsStated ==
    (entry \in {"run_and_rename", "just_run"} /\ launched /\ pc = "done") =>
        idx >= 1

\* C19, amended: run_and_rename invokes the renderer, then parses its
\* output, then renames the generated files: when it has started the
\* renderer and returned, it has parsed the captured text and made one
\* rename per extracted identifier, and an error after the start comes from
\* the loop.  just_run invokes the renderer without the parse and rename
\* steps: it captures nothing, extracts nothing and makes no file-system
\* call.
C19_RunAndRenameOnly ==
    /\ (entry = "run_and_rename" /\ launched /\ ~running) =>
          /\ pc = "done" =>
                /\ idx >= 1
                /\ matches = findall(JoinedOutput(result_stdout))
                /\ Cardinality(RenamesMade) = Len(matches)
                /\ Len(ret) = Len(matches)
          /\ pc = "raised" => idx >= 1
    /\ entry = "just_run" =>
          /\ pc \in {"start", "run", "wait", "done", "raised"}
          /\ result_stdout = <<>>
          /\ idx = 0
          /\ matches = <<>>
          /\ fsops = <<>>
          /\ ret = <<>>
          /\ pc = "done" => fs = fs0

\* just_run returned after a renderer that printed an identifier and wrote
\* the file of that name, which is still under its original name
C19_Witness ==
    /\ entry = "just_run"
    /\ pc = "done"
    /\ launched
    /\ findall(JoinedOutput(rendererOut)) # <<>>
    /\ \E x \in wrote : x \in DOMAIN fs

----------------------------------------------------------------------------
(* C17 *)

\* presentation.pptx was written by the script
DeckWritten == deck.exists

\* slide i of the saved deck embeds the i-th returned clip
EmbedsClip(i) ==
    /\ deck.slides[i].name = <<args.scene_name, ret[i]>>
    /\ deck.slides[i].movie = <<ret[i], fs[ret[i]]>>
    /\ deck.slides[i].mime = "video/mp4"

\* the poster of slide i is the first frame of the i-th returned clip
PosterIsFirstFrame(i) ==
    /\ ~deck.slides[i].poster.none
    /\ deck.slides[i].poster.image = [clip |-> fs[ret[i]], no |-> 1]

\* the deck is written once, after the last slide was added
SavedAfterAllSlides ==
    /\ DeckWritten => (pc = "saved" /\ deck.slides = prs)
    /\ pc = "saved" => (DeckWritten /\ Len(prs) = Len(ret))

\* C17 as stated: generate_pptx writes presentation.pptx with exactly one
\* slide per path returned by run_and_rename, in the returned order, each
\* slide embedding its clip with a poster taken from the clip's first
\* frame; the deck is saved only after all slides were added.
C17_AsStated ==
    entry = "generate_pptx" =>
        /\ SavedAfterAllSlides
        /\ pc = "saved" =>
              /\ Len(deck.slides) = Len(ret)
              /\ \A i \in 1..Len(ret) : EmbedsClip(i) /\ PosterIsFirstFrame(i)

\* C17, amended: as stated, except that a slide whose clip holds no frame
\* embeds the clip with no poster image supplied.
C17_OneSlidePerClip ==
    entry = "generate_pptx" =>
        /\ SavedAfterAllSlides
        /\ pc = "saved" =>
              /\ Len(deck.slides) = Len(ret)
              /\ \A i \in 1..Len(ret) :
                    /\ EmbedsClip(i)
                    /\ IF clipFrames[fs[ret[i]]] = 0
                       THEN deck.slides[i].poster.none
                       ELSE PosterIsFirstFrame(i)

\* a deck of two slides was saved, the first clip without a frame, the
\* second with frames
C17_Witness ==
    /\ entry = "generate_pptx"
    /\ pc = "saved"
    /\ Len(deck.slides) = 2
    /\ deck.slides[1].poster.none
    /\ ~deck.slides[2].poster.none

----------------------------------------------------------------------------
(* C18 *)

\* the errors that come out of run_and_rename
RunAndRenameErrors == {"KeyError", "FileNotFoundError", "FileExistsError"}

\* C18: an error raised inside run_and_rename is not caught by
\* generate_pptx: the script ends with that error, no slide has been built
\* and presentation.pptx has not been written.
C18_ErrorsPropagate ==
    (entry = "generate_pptx" /\ err \in RunAndRenameErrors) =>
        /\ pc = "raised"
        /\ prs = <<>>
        /\ ~DeckWritten

\* generate_pptx ended with the error of a failed rename that came after a
\* successful one
C18_Witness ==
    /\ entry = "generate_pptx"
    /\ pc = "raised"
    /\ err = "FileNotFoundError"
    /\ Len(new_filenames) = 1
    /\ prs = <<>>

----------------------------------------------------------------------------
(* C16 *)

\* call q made the k-th file-system call, and it took the file at x away
TookAway(q, k, x) == cops[k].proc = q /\ cops[k].src = x

\* call q made the k-th file-system call, and it put a file at x
Placed(q, k, x) == cops[k].proc = q /\ cops[k].op = "rename" /\ cops[k].path = x

\* C16: two concurrent reconciliation runs over the same identifiers can
\* break each other, and only each other: with all originals present at
\* the start, a run fails only on a path the other run has already removed
\* or moved (or, where rename does not replace, on a target the other run
\* has placed), and a target that a run placed is deleted only by the other
\* run.  The witness shows both to be reachable.
C16_RunsBreakEachOther ==
    /\ \A p \in DOMAIN procs :
          procs[p].pc = "raised" =>
              \E k \in 1..Len(cops) :
                  \/ /\ procs[p].err = "FileNotFoundError"
                     /\ TookAway(3 - p, k, procs[p].failed)
                  \/ /\ procs[p].err = "FileExistsError"
                     /\ Placed(3 - p, k, procs[p].failed)
    /\ \A k \in 1..Len(cops) :
          cops[k].op = "remove" =>
              \A j \in 1..(k - 1) :
                  (cops[j].op = "rename" /\ cops[j].path = cops[k].path) =>
                      cops[j].proc # cops[k].proc

\* one run placed the first target; the other run deleted that target and
\* then failed on the rename of the original the first run had moved
C16_Witness ==
    \E p \in DOMAIN procs, j, k \in 1..Len(cops) :
        /\ j < k
        /\ Placed(3 - p, j, cops[k].path)
        /\ cops[k].proc = p
        /\ cops[k].op = "remove"
        /\ procs[p].pc = "raised"
        /\ procs[p].err = "FileNotFoundError"
        /\ procs[p].failed = cops[j].src

----------------------------------------------------------------------------
(* C20 *)

\* the environment handed to the child just started is the setup process's
\* own environment with the ffmpeg bin directory put in front of PATH
ChildGotPrependedCopy ==
    /\ Len(children') = Len(children) + 1
    /\ LET c == children'[Len(children')]
           sep == IF system = "Windows" THEN ";" ELSE ":"
           own == IF "PATH" \in DOMAIN environ THEN environ["PATH"] ELSE <<>>
       IN  /\ DOMAIN c.env = DOMAIN environ \cup {"PATH"}
           /\ c.env["PATH"] = <<"ffmpeg_portable/bin", sep>> \o own
           /\ \A n \in DOMAIN environ \ {"PATH"} : c.env[n] = environ[n]

\* C20: no step of run() changes the PATH of the setup process's own
\* environment or the system's PATH: os.environ is the same after every
\* step as before it, and install_packages and run_healthcheck put the
\* ffmpeg bin directory in front of PATH only in the copy of the environment
\* that they hand to their child process.
C20_OwnPathUntouched ==
    [][/\ environ' = environ
       /\ systemPath' = systemPath
       /\ (/\ step \in {"install_packages", "run_healthcheck"}
           /\ step' # "exited" \/ ran'[Len(ran')].outcome # "interrupted") =>
             ChildGotPrependedCopy]_vars

\* run() has completed in a process started without PATH: the health check
\* got a PATH that starts with the ffmpeg bin directory, the process itself
\* still has none
C20_Witness ==
    /\ step = "completed"
    /\ "PATH" \notin DOMAIN environ
    /\ children[Len(children)].by = "run_healthcheck"
    /\ children[Len(children)].env["PATH"] = <<"ffmpeg_portable/bin", ";">>

----------------------------------------------------------------------------
(* C23 *)

\* C23: the quality lookup fails closed: a run_and_rename call with a label
\* outside the five defined labels raises KeyError before the command line
\* is built, so the renderer is never started, no file is deleted or
\* renamed and the file system is as it was.
C23_LookupFailsClosed ==
    (entry = "run_and_rename" /\ args.quality \notin FiveLabels) =>
        /\ pc \in {"start", "raised"}
        /\ pc = "raised" => err = "KeyError"
        /\ cmd = <<>>
        /\ ~launched
        /\ ~running
        /\ fsops = <<>>
        /\ fs = fs0
        /\ ret = <<>>

\* the call with the label '720p60' has raised; the stale targets it found
\* are still there
C23_Witness ==
    /\ entry = "run_and_rename"
    /\ args.quality = "720p60"
    /\ pc = "raised"
    /\ err = "KeyError"
    /\ Cardinality(DOMAIN fs) = 3

----------------------------------------------------------------------------
(* C24 *)

\* k is the first position whose identifier already occurred before it
FirstRepeat(k) ==
    /\ \E j \in 1..(k - 1) : matches[j] = matches[k]
    /\ \A i, j \in 1..(k - 1) : matches[i] = matches[j] => i = j

\* C24: the extracted list is not de-duplicated.  When position k is the
\* first to repeat an identifier and the originals of the positions before
\* it exist, the earlier rename has moved the only original away, so the
\* call never returns a list: it gets no further than position k, the
\* rename there finds its original missing and raises FileNotFoundError,
\* and the positions 1..k-1 stay renamed.
C24_RepeatedIdentifierFails ==
    \A k \in 2..Len(matches) :
        (/\ Parsed
         /\ FirstRepeat(k)
         /\ \A i \in 1..(k - 1) : OriginalOf(i) \in DOMAIN fs0) =>
            /\ pc # "done"
            /\ idx <= k
            /\ (idx = k /\ pc \in {"rename", "raised"}) =>
                  OriginalOf(k) \notin DOMAIN fs
            /\ pc = "raised" =>
                  /\ idx = k
                  /\ err = "FileNotFoundError"
                  /\ ret = <<>>
                  /\ Len(new_filenames) = k - 1
                  /\ \A i \in 1..(k - 1) :
                        /\ new_filenames[i] = TargetOf(i)
                        /\ TargetOf(i) \in DOMAIN fs

\* the renderer printed the same identifier twice: the first position was
\* renamed, the second raised
C24_Witness ==
    /\ Parsed
    /\ Len(matches) = 2
    /\ matches[1] = matches[2]
    /\ pc = "raised"
    /\ err = "FileNotFoundError"
    /\ new_filenames = <<TargetOf(1)>>
    /\ TargetOf(1) \in DOMAIN fs

----------------------------------------------------------------------------
(* C26 *)

\* x is the original or the target path of some position of the list
OriginalOrTarget(x) ==
    \E i \in 1..Len(matches) :
        \/ x.name = matches[i] \o <<".", "m", "p", "4">>
        \/ x.name = args.scene_name \o <<"_", DigitChar(i)>> \o <<".", "m", "p", "4">>

\* the targets that existed when the renderer had exited
StaleTargetsFound == {i \in 1..Len(matches) : TargetOf(i) \in DOMAIN fs0}

\* C26: the reconciliation touches the original and target paths only:
\* whatever delete and rename steps a run_and_rename call has made, every
\* other file of the output directory is there as before with what it
\* held, and no other file has appeared; and a successful run over n
\* distinct identifiers leaves as many files fewer as targets existed
\* beforehand.
C26_OnlyOriginalsAndTargets ==
    Parsed =>
        /\ \A x \in DOMAIN fs0 \cup DOMAIN fs :
              ~OriginalOrTarget(x) =>
                  /\ x \in DOMAIN fs0
                  /\ x \in DOMAIN fs
                  /\ fs[x] = fs0[x]
        /\ (pc = "done" /\ Distinct(matches)) =>
              Cardinality(DOMAIN fs) =
                  Cardinality(DOMAIN fs0) - Cardinality(StaleTargetsFound)

\* a run over one identifier returned after deleting the stale first
\* target; the stale second target, which is no target of this run, and the
\* unrelated file are still there
C26_Witness ==
    /\ Parsed
    /\ pc = "done"
    /\ Len(matches) = 1
    /\ StaleTargetsFound = {1}
    /\ \E x \in DOMAIN fs : ~OriginalOrTarget(x) /\ x.name[1] = "S"
    /\ \E x \in DOMAIN fs : ~OriginalOrTarget(x) /\ x.name[1] = "x"
    /\ Cardinality(DOMAIN fs) = Cardinality(DOMAIN fs0) - 1

----------------------------------------------------------------------------
(* C25 *)

RECURSIVE StrippedLength(_, _)
\* the number of characters that the first j lines keep when stripped
StrippedLength(ls, j) ==
    IF j = 0 THEN 0 ELSE Len(strip(ls[j])) + StrippedLength(ls, j - 1)

\* the places of the searched text where one output line ends and the next
\* begins: b is such a place when the characters up to b come from the
\* lines before a line break and the characters after b from the lines
\* after it
LineBoundaries(t) ==
    LET ls == splitlines(t)
    IN  {StrippedLength(ls, j) : j \in 1..Len(ls)} \ {0, StrippedLength(ls, Len(ls))}

\* the characters p..q of s are a whole identifier: three digit groups with
\* no digit or underscore before them and no digit after them
WholeIdentifierAt(s, p, q) ==
    /\ p = 1 \/ s[p - 1] \notin Digit \cup {"_"}
    /\ q = Len(s) \/ s[q + 1] \notin Digit
    /\ s[p] \in Digit /\ s[q] \in Digit
    /\ IsThreePart(SubSeq(s, p, q))

\* C25: the identifiers are extracted from the stripped lines put end to
\* end, so the text on both sides of a line break is adjacent: an
\* identifier that the output wraps across a line break is extracted as
\* one identifier, and an extracted identifier that stands on no single
\* output line is the fusion of the end of one line with the start of the
\* next.
C25_LineBreaksAreTransparent ==
    (Parsed /\ pc = "loop" /\ idx = 1) =>
        LET t == KeptText(result_stdout, 1)
            B == LineBoundaries(result_stdout)
        IN  /\ \A b \in B : \A p \in 1..b : \A q \in (b + 1)..Len(t) :
                  WholeIdentifierAt(t, p, q) =>
                      \E i \in 1..Len(matches) : matches[i] = SubSeq(t, p, q)
            /\ \A i \in 1..Len(matches) :
                  ~Occurs(matches[i], result_stdout) =>
                      \E b \in B : \E p \in 1..b : \E q \in (b + 1)..Len(t) :
                          matches[i] = SubSeq(t, p, q)

\* the renderer ended one line with "0_0" and began the next with "_1":
\* the identifier 0_0_1 was extracted although no output line holds it
C25_Witness ==
    /\ Parsed
    /\ pc = "loop"
    /\ idx = 1
    /\ LineBoundaries(result_stdout) # {}
    /\ \E i \in 1..Len(matches) :
          /\ matches[i] = <<"0", "_", "0", "_", "1">>
          /\ ~Occurs(matches[i], result_stdout)

----------------------------------------------------------------------------
(* C29 *)

\* the calls of extract_first_frame_to_bytes that returned: one for each
\* slide that got its clip
Returned == {i \in 1..Len(prs) : prs[i].movie # <<>>}

\* C29: extract_first_frame_to_bytes decodes at most one frame.  A call
\* on a clip with at least one frame returned the JPEG bytes of the first
\* frame, read position 0, after decoding that one frame; a call on a clip
\* without frames returned None after decoding none; and in both cases the
\* container it opened was closed when it returned.
C29_FirstFrameOnly ==
    entry = "generate_pptx" =>
        \A i \in Returned :
            /\ i <= Len(containers)
            /\ containers[i].clip = prs[i].movie[2]
            /\ containers[i].closed
            /\ containers[i].decoded <= 1
            /\ IF clipFrames[containers[i].clip] >= 1
               THEN /\ containers[i].decoded = 1
                    /\ prs[i].poster =
                          [none |-> FALSE, format |-> "JPEG",
                           image |-> [clip |-> containers[i].clip, no |-> 1],
                           pos |-> 0]
               ELSE /\ containers[i].decoded = 0
                    /\ prs[i].poster = [none |-> TRUE]

\* two calls returned, the first on a clip without frames, the second on a
\* clip of more than one frame
C29_Witness ==
    /\ entry = "generate_pptx"
    /\ Returned = {1, 2}
    /\ clipFrames[containers[1].clip] = 0
    /\ clipFrames[containers[2].clip] > 1
    /\ containers[2].decoded = 1
    /\ containers[1].closed /\ containers[2].closed

----------------------------------------------------------------------------
(* C21 *)

\* the steps of run() after the version check
LaterSteps ==
    {"download_ffmpeg", "create_venv", "upgrade_pip", "install_packages",
     "copy_ffmpeg_dlls_to_venv", "create_pth_file", "create_sitecustomize",
     "create_render_script_template", "create_manim_bat_wrapper",
     "create_activation_script", "create_readme", "run_healthcheck"}

\* the running Python is older than 3.11
Below311 == version[1] * 100 + version[2] < 311

\* check_python_version has run to its end
VersionChecked ==
    /\ ran # <<>>
    /\ ran[1].step = "check_python_version"
    /\ ran[1].outcome # "interrupted"

\* C21: check_python_version ends the setup with exit status 1 exactly
\* when the running Python is older than 3.11, and then no later step has
\* run: no child process was started and nothing but the version check is
\* in the run's history; for 3.11 and later it returns and run() is at, or
\* past, the ffmpeg download.
C21_VersionGate ==
    VersionChecked =>
        /\ ran[1].outcome = "exit" <=> Below311
        /\ ran[1].outcome = "returned" <=> ~Below311
        /\ Below311 =>
              /\ step = "exited"
              /\ exitcode = 1
              /\ ran = <<[step |-> "check_python_version",
                          failure |-> "version", outcome |-> "exit"]>>
              /\ children = <<>>
              /\ \A i \in 1..Len(ran) : ran[i].step \notin LaterSteps
        /\ ~Below311 =>
              /\ Len(ran) = 1 => (step = "download_ffmpeg" /\ exitcode = -1)
              /\ Len(ran) > 1 => ran[2].step = "download_ffmpeg"

\* started with Python 3.10, the setup has exited with status 1 after the
\* version check alone
C21_Witness ==
    /\ version = <<3, 10>>
    /\ step = "exited"
    /\ exitcode = 1
    /\ Len(ran) = 1
    /\ ran[1].outcome = "exit"

----------------------------------------------------------------------------
(* C27 *)

\* the step that has just ended was ended by download_ffmpeg itself, by
\* returning or by the sys.exit of its handler
DownloadEnded ==
    /\ step = "download_ffmpeg"
    /\ ran'[Len(ran')].outcome \in {"returned", "exit"}

\* C27: download_ffmpeg does nothing when the ffmpeg directory exists: it
\* returns with everything under the base directory as it was and no child
\* started.  Otherwise it returns or, after an error of the download, the
\* extraction or the move, exits with status 1, and either way neither
\* ffmpeg.zip nor ffmpeg_temp remains; after a return the ffmpeg directory
\* exists, and after an exit it does not.
C27_DownloadCleansUp ==
    [][DownloadEnded =>
          IF "ffmpeg_portable" \in disk
          THEN /\ disk' = disk
               /\ children' = children
               /\ step' = "create_venv"
          ELSE /\ "ffmpeg.zip" \notin disk'
               /\ "ffmpeg_temp" \notin disk'
               /\ step' = "create_venv" => "ffmpeg_portable" \in disk'
               /\ step' # "create_venv" =>
                     /\ step' = "exited"
                     /\ exitcode' = 1
                     /\ ran'[Len(ran')].failure \in
                           {"download", "extract", "empty", "move"}
                     /\ "ffmpeg_portable" \notin disk'
               /\ children' = children]_vars

\* the move of the extracted directory failed: the setup has exited with
\* status 1 and neither the archive nor the temporary directory is left
C27_Witness ==
    /\ step = "exited"
    /\ exitcode = 1
    /\ Len(ran) = 2
    /\ ran[2] = [step |-> "download_ffmpeg", failure |-> "move",
                 outcome |-> "exit"]
    /\ "ffmpeg.zip" \notin disk
    /\ "ffmpeg_temp" \notin disk
    /\ "ffmpeg_portable" \notin disk

----------------------------------------------------------------------------
(* C28 *)

\* the order of the steps: version check, ffmpeg download, venv creation,
\* pip upgrade, package install, DLL copy, .pth file, sitecustomize, render
\* script, bat wrapper, activation script, readme, health check
InOrder ==
    /\ Len(ran) <= 13
    /\ \A i \in 1..Len(ran) :
          ran[i].step =
             CASE i = 1  -> "check_python_version"
               [] i = 2  -> "download_ffmpeg"
               [] i = 3  -> "create_venv"
               [] i = 4  -> "upgrade_pip"
               [] i = 5  -> "install_packages"
               [] i = 6  -> "copy_ffmpeg_dlls_to_venv"
               [] i = 7  -> "create_pth_file"
               [] i = 8  -> "create_sitecustomize"
               [] i = 9  -> "create_render_script_template"
               [] i = 10 -> "create_manim_bat_wrapper"
               [] i = 11 -> "create_activation_script"
               [] i = 12 -> "create_readme"
               [] OTHER  -> "run_healthcheck"
    /\ \A i \in 1..(Len(ran) - 1) : ran[i].outcome = "returned"

FatalSteps ==
    {"check_python_version", "download_ffmpeg", "create_venv",
     "install_packages"}

WarningSteps ==
    {"upgrade_pip", "copy_ffmpeg_dlls_to_venv", "create_pth_file",
     "create_sitecustomize", "run_healthcheck"}

\* the i-th step that ran failed; Ctrl-C is no failure of the step
Failed(i) == ran[i].failure \notin {"none", "KeyboardInterrupt"}

\* the i-th step ended the run with status 1 and nothing ran after it
EndedRun(i) ==
    /\ i = Len(ran)
    /\ ran[i].outcome \in {"exit", "raised"}
    /\ step = "exited"
    /\ exitcode = 1

\* the i-th step logged a warning and returned; the run went on
OnlyWarned(i) ==
    /\ ran[i].outcome = "returned"
    /\ ran[i].step \in warned
    /\ i = Len(ran) => step \notin {"exited", ran[i].step}

\* the run has printed SETUP COMPLETED SUCCESSFULLY exactly when all
\* thirteen steps returned
CompletesAfterAll ==
    step = "completed" <=>
        (Len(ran) = 13 /\ \A i \in 1..13 : ran[i].outcome = "returned")

\* the venv's interpreter could not be started for the pip upgrade
NoInterpreter(i) ==
    ran[i].step = "upgrade_pip" /\ ran[i].failure = "FileNotFoundError"

\* C28 as stated: the steps run in the fixed order; a failure of version
\* check, download, venv creation or package install exits with status 1
\* and no later step runs; a failure of pip upgrade, DLL copy, .pth,
\* sitecustomize or health check is only a warning and the run goes on to
\* the completion message.
C28_AsStated ==
    /\ InOrder
    /\ CompletesAfterAll
    /\ \A i \in 1..Len(ran) :
          /\ (ran[i].step \in FatalSteps /\ Failed(i)) => EndedRun(i)
          /\ (ran[i].step \in WarningSteps /\ Failed(i)) => OnlyWarned(i)

\* C28, amended: as stated, except that a pip upgrade that fails because
\* the venv's interpreter cannot be started ends the run with status 1 and
\* no later step runs.
C28_OrderAndSeverity ==
    /\ InOrder
    /\ CompletesAfterAll
    /\ \A i \in 1..Len(ran) :
          /\ (ran[i].step \in FatalSteps /\ Failed(i)) => EndedRun(i)
          /\ (ran[i].step \in WarningSteps /\ Failed(i)) =>
                IF NoInterpreter(i) THEN EndedRun(i) ELSE OnlyWarned(i)

\* every warning-only step failed and the run still completed with status 0
C28_Witness ==
    /\ step = "completed"
    /\ exitcode = 0
    /\ Len(ran) = 13
    /\ \A i \in 1..13 : ran[i].step \in WarningSteps => Failed(i)
    /\ WarningSteps \subseteq warned

----------------------------------------------------------------------------
(* C22 *)

\* two file names that differ at most in the case of their letters
SameIgnoringCase(a, b) ==
    /\ a.ext = b.ext
    /\ \/ a.stem = b.stem
       \/ {a.stem, b.stem} = {"Python", "python"}

\* the files of the scripts directory that the name f denotes there
Denoted(f) ==
    {n \in DOMAIN scripts :
        n = f \/ (system = "Windows" /\ SameIgnoringCase(n, f))}

\* an .exe of the ffmpeg bin directory named python.exe or pip.exe, in
\* whatever case, whose destination exists
ProtectedExisting(f) ==
    /\ f.ext = "exe"
    /\ \E g \in {[stem |-> "python", ext |-> "exe"],
                 [stem |-> "pip", ext |-> "exe"]} : SameIgnoringCase(f, g)
    /\ Denoted(f) # {}

\* the destination of f is left as it was
LeftUnchanged(f) ==
    \A n \in Denoted(f) : n \in DOMAIN scripts' /\ scripts'[n] = scripts[n]

\* after the step the destination of f holds the file from the ffmpeg bin
\* directory
IsCopied(f) ==
    \E n \in DOMAIN scripts' :
        /\ scripts'[n] = "ffmpeg"
        /\ IF Denoted(f) = {} THEN n = f ELSE n \in Denoted(f)

\* copy_ffmpeg_dlls_to_venv has just ended, by returning
CopyEnded ==
    /\ step = "copy_ffmpeg_dlls_to_venv"
    /\ ran'[Len(ran')].outcome = "returned"

\* the files of the scripts directory that no .dll or .exe of the ffmpeg bin
\* directory denotes are as before, and no other file has appeared
OthersUntouched ==
    /\ \A n \in DOMAIN scripts :
          (\A f \in ffbin : f.ext \in {"dll", "exe"} => n \notin Denoted(f)) =>
              (n \in DOMAIN scripts' /\ scripts'[n] = scripts[n])
    /\ \A n \in DOMAIN scripts' \ DOMAIN scripts :
          n \in ffbin /\ n.ext \in {"dll", "exe"}

\* C22 as stated: copy_ffmpeg_dlls_to_venv leaves an existing python.exe or
\* pip.exe of the scripts directory unchanged, and copies every other .exe
\* and every .dll of the ffmpeg bin directory.
C22_AsStated ==
    [][CopyEnded =>
          /\ \A f \in ffbin :
                IF ProtectedExisting(f) THEN LeftUnchanged(f)
                ELSE f.ext \in {"dll", "exe"} => IsCopied(f)
          /\ OthersUntouched]_vars

\* C22, amended: as stated, except that a copy that raises ends the copying
\* with a warning, and the files not copied until then stay uncopied.
C22_ProtectedNeverOverwritten ==
    [][CopyEnded =>
          /\ \A f \in ffbin :
                IF ProtectedExisting(f) THEN LeftUnchanged(f)
                ELSE f.ext \in {"dll", "exe"} =>
                        IF ran'[Len(ran')].failure = "none" THEN IsCopied(f)
                        ELSE step \in warned' /\ (IsCopied(f) \/ LeftUnchanged(f))
          /\ OthersUntouched]_vars

\* on Windows the ffmpeg bin directory held a Python.exe: after the copy
\* the venv's python.exe is still the venv's, and avcodec.dll and ffmpeg.exe
\* are the ffmpeg ones
C22_Witness ==
    /\ system = "Windows"
    /\ Len(ran) >= 6
    /\ ran[6] = [step |-> "copy_ffmpeg_dlls_to_venv", failure |-> "none",
                 outcome |-> "returned"]
    /\ [stem |-> "Python", ext |-> "exe"] \in ffbin
    /\ [stem |-> "Python", ext |-> "exe"] \notin DOMAIN scripts
    /\ scripts[[stem |-> "python", ext |-> "exe"]] = "venv"
    /\ scripts[[stem |-> "ffmpeg", ext |-> "exe"]] = "ffmpeg"
    /\ scripts[[stem |-> "avcodec", ext |-> "dll"]] = "ffmpeg"

====
